---- MODULE Spec2Model ----
(***************************************************************************)
(* Glass Box / TWFF: the ProcessLog session recorder                       *)
(* (glassbox/components/process_log.py), the dual-engine PDFExporter       *)
(* (glassbox/components/pdf_exporter.py) and the Editor handlers that      *)
(* drive them (glassbox/components/editor.py).                             *)
(*                                                                         *)
(* Representation.                                                         *)
(*  - A Python dict is a sequence of <<key, value>> pairs in insertion     *)
(*    order (Python dicts are ordered), read with Get and Has.             *)
(*  - A Python str is a TLA+ string; s[:n] is Slice(s, n).                 *)
(*  - datetime.utcnow() is an input of every call that reads the clock: a  *)
(*    reading drawn from Readings, in ticks of 1/TicksPerSecond second.    *)
(*    No order is imposed on successive readings (the system clock may be  *)
(*    set backward between two calls).                                     *)
(*  - isoformat() + "Z" is the record [sec, frac] (whole seconds and the   *)
(*    sub-second part) of a reading.                                       *)
(*  - JSON text is [json |-> tree], the tree being the serialized value    *)
(*    with the keys of every object in the order json.dumps writes them.   *)
(*  - SHA-256 is the ideal hash [sha256 |-> preimage].                     *)
(***************************************************************************)
EXTENDS Integers, Sequences, FiniteSets, TLC

\* ------------------------------------------------------------- bounds ----

\* Events a log may hold before the model stops calling operations on it.
MaxEvents == 3

\* The clock readings are 0 and ClockStep ticks (45.5 s at 2 ticks/s).
ClockStep == 91

\* Resolution of the clock: ticks in one second.
TicksPerSecond == 2

\* ---------------------------------------------------- Python helpers ----

Min(a, b) == IF a <= b THEN a ELSE b

Max(a, b) == IF a >= b THEN a ELSE b

\* A slip: the last n characters kept instead of the first.
Slice_tail(s, n) == SubSeq(s, Len(s) - Min(Len(s), n) + 1, Len(s))

\* s[:n] of a str (or list).
Slice(s, n) == SubSeq(s, 1, Min(Len(s), n))

\* k in d
Has(d, k) == \E i \in DOMAIN d : d[i][1] = k

\* d[k]
Get(d, k) == d[CHOOSE i \in DOMAIN d : d[i][1] = k][2]

\* list(d.keys())
KeysOf(d) == [i \in DOMAIN d |-> d[i][1]]

\* An optional argument: None, or a value.
None(dflt) == [given |-> FALSE, val |-> dflt]

Some(v) == [given |-> TRUE, val |-> v]

\* ------------------------------------------------------ str helpers ----

\* sub occurs in s at position i.
OccursAt(s, sub, i) ==
    /\ i + Len(sub) - 1 <= Len(s)
    /\ SubSeq(s, i, i + Len(sub) - 1) = sub

\* sub in s
Contains(s, sub) == \E i \in 1..(Len(s) - Len(sub) + 1) : OccursAt(s, sub, i)

\* s.find(sub, start), counted from 1: the first position from start on
\* where sub occurs, 0 when there is none.
Find(s, sub, start) ==
    LET hits == {i \in start..(Len(s) - Len(sub) + 1) : OccursAt(s, sub, i)}
    IN  IF hits = {} THEN 0
        ELSE CHOOSE i \in hits : \A j \in hits : i <= j

\* The character of s at position i; no character outside s.
CharAt(s, i) == IF i \in 1..Len(s) THEN SubSeq(s, i, i) ELSE ""

\* s[i:] counted from 1.
From(s, i) == SubSeq(s, i, Len(s))

LowerLetters == "abcdefghijklmnopqrstuvwxyz"

UpperLetters == "ABCDEFGHIJKLMNOPQRSTUVWXYZ"

Digits == "0123456789"

\* The characters of the text chars.
Chars(chars) == {CharAt(chars, i) : i \in 1..Len(chars)}

\* [a-z]
LowerSet == Chars(LowerLetters)

\* [a-z0-9] under re.I
NameSet == Chars(LowerLetters) \cup Chars(UpperLetters) \cup Chars(Digits)

\* \s of a regular expression.
IsSpace(c) == c \in {" ", "\n", "\t", "\r"}

\* Each letter of from as the letter of to at the same place.
CaseMap(from, to) ==
    [c \in Chars(from) |-> CharAt(to, CHOOSE i \in 1..Len(from) : CharAt(from, i) = c)]

ToUpper == CaseMap(LowerLetters, UpperLetters)

ToLower == CaseMap(UpperLetters, LowerLetters)

\* The character c under a case map: letters of the map change, every
\* other character stays.
Recase(c, map) == IF c \in DOMAIN map THEN map[c] ELSE c

RECURSIVE Upper(_)
\* str.upper
Upper(s) ==
    IF s = "" THEN ""
    ELSE Recase(CharAt(s, 1), ToUpper) \o Upper(From(s, 2))

RECURSIVE Lower(_)
\* str.lower
Lower(s) ==
    IF s = "" THEN ""
    ELSE Recase(CharAt(s, 1), ToLower) \o Lower(From(s, 2))

RECURSIVE HtmlEscape(_)
\* html.escape(s), quote=True
HtmlEscape(s) ==
    IF s = "" THEN ""
    ELSE LET c == CharAt(s, 1)
         IN  (CASE c = "&"  -> "&amp;"
                [] c = "<"  -> "&lt;"
                [] c = ">"  -> "&gt;"
                [] c = "\"" -> "&quot;"
                [] c = "'"  -> "&#x27;"
                [] OTHER    -> c)
                \o HtmlEscape(From(s, 2))

RECURSIVE LStrip(_)
\* str.lstrip
LStrip(s) ==
    IF s # "" /\ IsSpace(CharAt(s, 1)) THEN LStrip(From(s, 2)) ELSE s

RECURSIVE RStrip(_)
\* str.rstrip
RStrip(s) ==
    IF s # "" /\ IsSpace(CharAt(s, Len(s))) THEN RStrip(SubSeq(s, 1, Len(s) - 1))
    ELSE s

\* str.strip
Strip(s) == LStrip(RStrip(s))

RECURSIVE JoinSpace(_)
\* " ".join(parts)
JoinSpace(parts) ==
    IF parts = <<>> THEN ""
    ELSE IF Len(parts) = 1 THEN parts[1]
    ELSE parts[1] \o " " \o JoinSpace(Tail(parts))

RECURSIVE CollapseSpace(_)
\* re.sub(r'\s+', ' ', s)
CollapseSpace(s) ==
    IF s = "" THEN ""
    ELSE IF IsSpace(CharAt(s, 1)) THEN " " \o CollapseSpace(LStrip(s))
    ELSE CharAt(s, 1) \o CollapseSpace(From(s, 2))

RECURSIVE ReStripTags(_)
\* re.sub(r'<[^>]+>', '', s): every "<", one or more characters other than
\* ">", and the ">" after them, removed.
ReStripTags(s) ==
    IF s = "" THEN ""
    ELSE LET close == Find(s, ">", 2)
         IN  IF CharAt(s, 1) = "<" /\ close > 2
             THEN ReStripTags(From(s, close + 1))
             ELSE CharAt(s, 1) \o ReStripTags(From(s, 2))

\* ------------------------------------------------------------ clock -----

\* The values datetime.datetime.utcnow() may return, in ticks.
Readings == {0, ClockStep}

\* datetime.isoformat() + "Z" of a reading.
IsoFormat(t) == [sec |-> t \div TicksPerSecond, frac |-> t % TicksPerSecond]

\* The instant a timestamp denotes, in ticks.
TsTicks(ts) == ts.sec * TicksPerSecond + ts.frac

\* ts1 is not later than ts2.
TsLeq(ts1, ts2) == TsTicks(ts1) <= TsTicks(ts2)

\* -------------------------------------------------------------- JSON ----

\* Every dict key the program writes, in the order sorted() gives (code point
\* order: "_" sorts before the lower-case letters, a prefix before its
\* extensions).
SortedKeyOrder ==
    << "_integrity", "acceptance", "algorithm", "char_count",
       "char_count_total", "content_source", "duration_ms", "end_time",
       "events", "hash", "input_preview", "interaction_type", "meta",
       "model", "note", "output_length", "output_preview", "position",
       "position_end", "position_start", "role", "salt", "session_id",
       "source", "start_time", "timestamp", "type", "user_id", "version",
       "word_count_total" >>

\* The items of dict d in sorted key order (json.dumps(..., sort_keys=True)).
SortItems(d) ==
    LET present == SelectSeq(SortedKeyOrder, LAMBDA k : Has(d, k))
    IN  [i \in 1..Len(present) |-> <<present[i], Get(d, present[i])>>]

\* The items of dict d in the order json.dumps writes them.
DumpItems(d, sort_keys) == IF sort_keys THEN SortItems(d) ELSE d

\* The JSON tree of one event: its own keys and the keys of its meta dict.
JsonEventTree(e, sort_keys) ==
    DumpItems([i \in DOMAIN e |->
                  IF e[i][1] = "meta"
                  THEN <<"meta", DumpItems(e[i][2], sort_keys)>>
                  ELSE e[i]],
              sort_keys)

\* The JSON tree of a list of events.
JsonEventsTree(evts, sort_keys) ==
    [i \in DOMAIN evts |-> JsonEventTree(evts[i], sort_keys)]

\* json.dumps(<list of events>, sort_keys=...)
JsonDumpsEvents(evts, sort_keys) == [json |-> JsonEventsTree(evts, sort_keys)]

\* json.loads(text)
JsonLoads(text) == text.json

\* hashlib.sha256(data).hexdigest(), as an ideal (collision-free) hash.
Sha256(data) == [sha256 |-> data]

\* ------------------------------------------------ annotation registry ----

ANNOTATION_TYPES ==
    << <<"ai_paraphrase",
         << <<"css_class", "ann-paraphrase">>, <<"label", "AI Paraphrase">>,
            <<"description", "Text rewritten by an AI assistant">>,
            <<"log_type", "ai_interaction">>, <<"interaction", "paraphrase">> >> >>,
       <<"ai_generated",
         << <<"css_class", "ann-generated">>, <<"label", "AI Generated">>,
            <<"description", "Text written entirely by an AI assistant">>,
            <<"log_type", "ai_interaction">>, <<"interaction", "draft">> >> >>,
       <<"external_paste",
         << <<"css_class", "ann-external">>, <<"label", "External Source">>,
            <<"description", "Text pasted from an external source">>,
            <<"log_type", "paste">>, <<"interaction", "external">> >> >>,
       <<"ai_completion",
         << <<"css_class", "ann-completion">>, <<"label", "AI Completion">>,
            <<"description", "Tab-completed by Glass Box">>,
            <<"log_type", "ai_interaction">>, <<"interaction", "completion">> >> >> >>

\* ------------------------------------------------------- ProcessLog -----

SPEC_VERSION == "0.1.0"

\* self._content_source
ContentSource == "content/document.xhtml"

\* The event types of the TWFF format (log_event's docstring).
EventTypes ==
    {"session_start", "edit", "paste", "ai_interaction", "chat_interaction",
     "focus_change", "checkpoint", "session_end"}

\* The types a caller passes to log_event itself: session_start is recorded
\* by the constructor, session_end by end_session, and the other types have
\* a typed operation.
CallerEventTypes == {"chat_interaction"}

\* meta or {}
MetaOrEmpty(meta) == IF meta.given /\ meta.val # <<>> THEN meta.val ELSE <<>>

\* The event dict log_event builds.
NewEvent(now, event_type, meta) ==
    << <<"timestamp", IsoFormat(now)>>,
       <<"type", event_type>>,
       <<"meta", MetaOrEmpty(meta)>> >>

\* A slip: self.events.insert(0, event)
AppendEvent_front(evts, event) == <<event>> \o evts

\* self.events.append(event)
AppendEvent(evts, event) == Append(evts, event)

\* log_event: the new value of self.events and the value returned.
log_event(evts, now, event_type, meta) ==
    LET event == NewEvent(now, event_type, meta)
    IN  [events |-> AppendEvent(evts, event), ret |-> event]

\* A slip: the two totals of a checkpoint stored under each other's key.
checkpoint_meta_swapped(a) ==
    << <<"char_count_total", a.word_count>>,
       <<"word_count_total", a.char_count>>,
       <<"position", a.cursor_position>> >>

checkpoint_meta(a) ==
    << <<"char_count_total", a.char_count>>,
       <<"word_count_total", a.word_count>>,
       <<"position", a.cursor_position>> >>

edit_meta(a) ==
    << <<"position_start", a.position_start>>,
       <<"position_end", a.position_end>>,
       <<"source", a.source>> >>

paste_meta(a) ==
    << <<"char_count", a.char_count>>,
       <<"source", a.source>>,
       <<"position_start", a.position_start>>,
       <<"position_end", a.position_end>>,
       <<"output_preview", Slice(a.preview, 100)>> >>

ai_interaction_meta(a) ==
    << <<"interaction_type", a.interaction_type>>,
       <<"model", a.model>>,
       <<"input_preview", Slice(a.input_preview, 100)>>,
       <<"output_preview", Slice(a.output_preview, 50)>>,
       <<"output_length", a.output_length>>,
       <<"position_start", a.position_start>>,
       <<"position_end", a.position_end>>,
       <<"acceptance", a.acceptance>> >>

focus_change_meta(a) == << <<"duration_ms", a.duration_ms>> >>

log_checkpoint(evts, now, a) ==
    log_event(evts, now, "checkpoint", Some(checkpoint_meta(a)))

log_edit(evts, now, a) == log_event(evts, now, "edit", Some(edit_meta(a)))

log_paste(evts, now, a) == log_event(evts, now, "paste", Some(paste_meta(a)))

log_ai_interaction(evts, now, a) ==
    log_event(evts, now, "ai_interaction", Some(ai_interaction_meta(a)))

log_focus_change(evts, now, a) ==
    log_event(evts, now, "focus_change", Some(focus_change_meta(a)))

\* end_session reads the clock for end_time (now1), then log_event reads it
\* again for the event (now2).
end_session(evts, now1, now2) ==
    LET end_time == IsoFormat(now1)
        logged   == log_event(evts, now2, "session_end", None(<<>>))
    IN  [events |-> logged.events, ret |-> end_time]

\* The "events" entry of the dict to_dict returns is the list object
\* self.events itself, not a copy of it.
EventsRef == "self.events"

to_dict(sid, uid, start, now, end_time) ==
    << <<"version", SPEC_VERSION>>,
       <<"session_id", sid>>,
       <<"user_id", uid>>,
       <<"start_time", start>>,
       <<"end_time", IF end_time.given THEN end_time.val ELSE IsoFormat(now)>>,
       <<"content_source", ContentSource>>,
       <<"events", EventsRef>> >>

\* A slip: json.dumps(self.events), the keys left in insertion order.
EventsJson_unsorted(evts) == JsonDumpsEvents(evts, FALSE)

\* json.dumps(self.events, sort_keys=True)
EventsJson(evts) == JsonDumpsEvents(evts, TRUE)

\* hashlib.sha256((events_json + salt).encode()).hexdigest()
IntegrityHash(events_json, salt) == Sha256(<<events_json, salt>>)

IntegrityRecord(evts, sid) ==
    << <<"algorithm", "SHA-256">>,
       <<"salt", "session_id">>,
       <<"hash", IntegrityHash(EventsJson(evts), sid)>>,
       <<"note", "Hash of events array concatenated with session_id salt.">> >>

\* The <item> elements of the manifest document.
_build_manifest ==
    << [id |-> "content", href |-> "content/document.xhtml",
        media_type |-> "application/xhtml+xml"],
       [id |-> "log", href |-> "meta/process-log.json",
        media_type |-> "application/json"] >>

\* json.dumps(process_log_dict, indent=2): keys in insertion order; the
\* "events" entry is serialized from the list it refers to, as it is now.
JsonDumpsLog(d, evts) ==
    [json |-> [i \in DOMAIN d |->
                 IF d[i][1] = "events"
                 THEN <<"events", JsonEventsTree(evts, FALSE)>>
                 ELSE d[i]]]

\* zf.writestr(path, data)
WriteStr(zf, path, data) == Append(zf, <<path, data>>)

\* export: the new value of self.events and the archive returned (the
\* entries of the ZIP file in the order written).
export(evts, sid, uid, start, xhtml_content, now1, now2) ==
    LET ended    == end_session(evts, now1, now2)
        end_time == ended.ret
        process_log_dict ==
            Append(to_dict(sid, uid, start, now2, Some(end_time)),
                   <<"_integrity", IntegrityRecord(ended.events, sid)>>)
        manifest == _build_manifest
        zf1 == WriteStr(<<>>, "content/document.xhtml", xhtml_content)
        zf2 == WriteStr(zf1, "meta/process-log.json",
                        JsonDumpsLog(process_log_dict, ended.events))
        zf3 == WriteStr(zf2, "meta/manifest.xml", manifest)
    IN  [events |-> ended.events, ret |-> zf3]

\* ---------------------------------------------------- editor inputs ----

\* The document the editor opens with (abridged).
_initial_content == "<h1>Welcome to Glass Box</h1>"

\* What the user may make the editor hold.
EditorValues == {"", "<p>Hello world</p>"}

\* Document bodies of the supported markup: a line break inside a
\* paragraph, a paragraph that begins with emphasis, a paragraph inside a
\* block quote, a plain block quote, emphasis inside a paragraph, an
\* annotation span, a list.
SupportedBodies ==
    {"<h1>Title</h1><p>One<br>Two</p>",
     "<p><b>Bold</b> start</p>",
     "<blockquote><p>Quoted</p></blockquote>",
     "<blockquote>Quoted</blockquote>",
     "<p>x <i>it</i> y</p>",
     "<p>An <span class=\"ann-paraphrase\">AI <b>text</b></span> here</p>",
     "<ul><li>a</li><li>b</li></ul>"}

\* Document bodies with markup the fallback engine does not support: an
\* unknown tag inside and at the start of a paragraph, a tag that is never
\* closed.
UnsupportedBodies ==
    {"<p>Say <mark>hi</mark> now</p>",
     "<p><mark>hi</mark> now</p>",
     "<p>a <b>bold</p>"}

RenderBodies == SupportedBodies \cup UnsupportedBodies

\* The title, author and institution fields of the PDF dialog.
MetaInputs ==
    {[title |-> "", author |-> "", institution |-> ""],
     [title |-> "My Essay", author |-> "A. Writer", institution |-> "FIRL"]}

\* ------------------------------------------------------ PDFExporter -----

\* Annotation colour palette of the two engines.
ANN_COLOURS ==
    << <<"ann-paraphrase",
         << <<"hex", "#3b82f6">>, <<"label", "AI Paraphrase">>,
            <<"desc", "Text rewritten by an AI assistant">> >> >>,
       <<"ann-generated",
         << <<"hex", "#10b981">>, <<"label", "AI Generated">>,
            <<"desc", "Text drafted entirely by an AI assistant">> >> >>,
       <<"ann-external",
         << <<"hex", "#f59e0b">>, <<"label", "External Source">>,
            <<"desc", "Text pasted from an external source">> >> >>,
       <<"ann-completion",
         << <<"hex", "#8b5cf6">>, <<"label", "AI Completion">>,
            <<"desc", "Inline tab-completion accepted">> >> >> >>

\* Seconds in a minute: the divisor of _stats.
SecondsPerMinute == 60

\* int(x / y) of Python: the quotient truncated toward zero.
TruncDiv(x, y) == IF x >= 0 THEN x \div y ELSE -((-x) \div y)

\* _ts: the text before "." parsed to whole seconds.
_ts(ts) == ts.sec

\* sum(1 for e in evts if e["type"] == event_type)
CountEvents(evts, event_type) ==
    Len(SelectSeq(evts, LAMBDA e : Get(e, "type") = event_type))

\* A timestamp text strptime cannot parse.
Unparsable == [text |-> "not-a-timestamp"]

\* strptime succeeds on ts.
Parses(ts) == "sec" \in DOMAIN ts

\* The whole-second difference end - start of _stats, in ticks; now is the
\* clock reading taken when the log holds no session_end.
Elapsed(evts, start, now) ==
    LET ends == SelectSeq(evts, LAMBDA e : Get(e, "type") = "session_end")
    IN  IF ends # <<>>
        THEN (_ts(Get(ends[Len(ends)], "timestamp")) - _ts(start)) * TicksPerSecond
        ELSE now - _ts(start) * TicksPerSecond

\* What the try block of _stats raises on: start_time, and the timestamp of
\* the last session_end, are the two texts it parses.
ParseFails(evts, start) ==
    LET ends == SelectSeq(evts, LAMBDA e : Get(e, "type") = "session_end")
    IN  \/ ~Parses(start)
        \/ ends # <<>> /\ ~Parses(Get(ends[Len(ends)], "timestamp"))

\* A slip: the fallback value passed through the floor of one minute.
ElapsedMins_floored(evts, start, now) ==
    IF ParseFails(evts, start) THEN Max(1, 0)
    ELSE Max(1, TruncDiv(Elapsed(evts, start, now),
                         SecondsPerMinute * TicksPerSecond))

\* try: mins = max(1, int((end - start).total_seconds() / 60))
\* except Exception: mins = 0
ElapsedMins(evts, start, now) ==
    IF ParseFails(evts, start) THEN 0
    ELSE Max(1, TruncDiv(Elapsed(evts, start, now),
                         SecondsPerMinute * TicksPerSecond))

\* PDFExporter._stats; now is the clock reading it takes when the log holds
\* no session_end.
_stats(evts, start, now) ==
    [ai    |-> CountEvents(evts, "ai_interaction"),
     paste |-> CountEvents(evts, "paste"),
     edits |-> CountEvents(evts, "edit"),
     mins  |-> ElapsedMins(evts, start, now)]

\* e.get("meta", {}).get(key, "-")
MetaGet(e, key) ==
    IF Has(e, "meta") /\ Has(Get(e, "meta"), key) THEN Get(Get(e, "meta"), key)
    ELSE "-"

\* One row of the AI interaction table: time (timestamp[11:19], the whole
\* seconds), interaction type, model, output length, acceptance.
AiRow(e) ==
    << _ts(Get(e, "timestamp")), MetaGet(e, "interaction_type"),
       MetaGet(e, "model"), MetaGet(e, "output_length"),
       MetaGet(e, "acceptance") >>

\* A slip: a row for every event of the log.
AiRows_all(evts) == [i \in DOMAIN evts |-> AiRow(evts[i])]

\* The rows of the AI interaction table.
AiRows(evts) ==
    LET ai_events == SelectSeq(evts, LAMBDA e : Get(e, "type") = "ai_interaction")
    IN  IF ai_events = <<>> THEN <<>>
        ELSE [i \in DOMAIN ai_events |-> AiRow(ai_events[i])]

\* Seconds in a day: strftime("%B %d, %Y") tells days apart.
SecondsPerDay == 86400

\* utcnow().strftime("%B %d, %Y"): the day of the reading now.
DateOf(now) == now \div (SecondsPerDay * TicksPerSecond)

\* One section of a document: its kind and what it shows.
Section(kind, items) == [kind |-> kind, items |-> items]

\* html.escape of every text the PDF dialog may give, computed once.
EscapedMetaTexts ==
    [text \in {m.title : m \in MetaInputs} \cup {m.author : m \in MetaInputs}
                 \cup {m.institution : m \in MetaInputs} \cup {"Untitled"} |->
        HtmlEscape(text)]

\* esc(text) of _build_html, _html_mod.escape(text) of _reportlab
Esc(text) ==
    IF text \in DOMAIN EscapedMetaTexts THEN EscapedMetaTexts[text]
    ELSE HtmlEscape(text)

\* The metadata block: title, author and institution when given, date, and
\* session_id[:8]; title, author and institution are escaped.
MetaFields(title, author, institution, now, sid) ==
    << <<"Title", Esc(title)>> >>
       \o (IF author # "" THEN << <<"Author", Esc(author)>> >> ELSE <<>>)
       \o (IF institution # "" THEN << <<"Institution", Esc(institution)>> >>
           ELSE <<>>)
       \o << <<"Date", DateOf(now)>>, <<"Session", Slice(sid, 8)>> >>

\* The inline legend: a swatch and the label of every ANN_COLOURS value.
LegendItems ==
    [i \in DOMAIN ANN_COLOURS |->
        <<Get(ANN_COLOURS[i][2], "hex"), Get(ANN_COLOURS[i][2], "label")>>]

\* The annotation key: swatch, label and description of every ANN_COLOURS
\* value.
AnnotationKey ==
    [i \in DOMAIN ANN_COLOURS |->
        <<Get(ANN_COLOURS[i][2], "hex"), Get(ANN_COLOURS[i][2], "label"),
          Get(ANN_COLOURS[i][2], "desc")>>]

\* The labels of the four counters, in the order both engines show them.
StatLabels ==
    <<"AI Interactions", "External Pastes", "Human Edits", "Writing Time">>

\* _stat writes lbl.upper().
StatCellLabels == [i \in DOMAIN StatLabels |-> Upper(StatLabels[i])]

\* The four counters of the session summary under the given labels.
StatRow(stats, labels) ==
    << <<stats.ai, labels[1]>>, <<stats.paste, labels[2]>>,
       <<stats.edits, labels[3]>>, <<stats.mins, labels[4]>> >>

\* The four stat cards of _build_html.
StatCards(stats) == StatRow(stats, StatLabels)

\* A slip: the cells of human edits and external pastes in each other's
\* place.
StatCells_swapped(stats) ==
    << <<stats.ai, StatCellLabels[1]>>, <<stats.edits, StatCellLabels[3]>>,
       <<stats.paste, StatCellLabels[2]>>, <<stats.mins, StatCellLabels[4]>> >>

\* The four _stat cells of _reportlab.
StatCells(stats) == StatRow(stats, StatCellLabels)

\* The document _build_html lays out for the primary engine.
_build_html(content, title, author, institution, engine, sid, evts, start, now) ==
    LET stats   == _stats(evts, start, now)
        rows    == AiRows(evts)
        ai_rows == IF rows # <<>> THEN rows
                   ELSE << <<"No AI interactions recorded">> >>
    IN  [meta     |-> [title |-> title, author |-> author,
                       institution |-> institution, session |-> Slice(sid, 8)],
         body     |-> content,
         stats    |-> stats,
         ai_table |-> ai_rows,
         footer   |-> engine,
         sections |->
            << Section("meta", MetaFields(title, author, institution, now, sid)),
               Section("legend", LegendItems),
               Section("body", <<content>>),
               Section("page_break", <<>>),
               Section("appendix", <<"Appendix A - AI Usage Report">>),
               Section("counters", StatCards(stats)),
               Section("session", <<Slice(sid, 8), start>>),
               Section("ai_table", ai_rows),
               Section("annotation_key", AnnotationKey),
               Section("footer", <<engine>>) >>]

\* ------------------------------------------------ HTML to flowables ----

\* The class an opening span tag gives, when the tag holds
\* class="(ann-[a-z]+)"; "" when it does not.
AnnClass(tag) ==
    LET attr  == "class=\"ann-"
        at    == Find(tag, attr, 1)
        first == at + Len(attr)
        quote == Find(tag, "\"", first)
        name  == SubSeq(tag, first, quote - 1)
    IN  IF at = 0 \/ quote = 0 \/ quote = first THEN ""
        ELSE IF \A i \in 1..Len(name) : CharAt(name, i) \in LowerSet
        THEN "ann-" \o name
        ELSE ""

\* repl_span: the span's text, its tags removed and escaped, in a font tag
\* of the colour of its class.
repl_span(cls, text) ==
    LET col == IF Has(ANN_COLOURS, cls) THEN Get(Get(ANN_COLOURS, cls), "hex")
               ELSE "#000000"
    IN  "<font color=\"" \o col \o "\">" \o HtmlEscape(ReStripTags(text)) \o "</font>"

RECURSIVE ReplaceSpans(_)
\* re.sub(r'<span[^>]*class="(ann-[a-z]+)"[^>]*>(.*?)</span>', repl_span, raw)
ReplaceSpans(raw) ==
    LET open  == Find(raw, "<span", 1)
        gt    == Find(raw, ">", open + Len("<span"))
        cls   == AnnClass(SubSeq(raw, open, gt))
        close == Find(raw, "</span>", gt + 1)
    IN  IF open = 0 THEN raw
        ELSE IF gt = 0 \/ close = 0 THEN raw
        ELSE IF cls = ""
        THEN SubSeq(raw, 1, open) \o ReplaceSpans(From(raw, open + 1))
        ELSE SubSeq(raw, 1, open - 1)
                \o repl_span(cls, SubSeq(raw, gt + 1, close - 1))
                \o ReplaceSpans(From(raw, close + Len("</span>")))

\* The tags re.split cuts the text at: </?(?:h[123]|p|blockquote|ul|li)> and
\* <br\s*/?> (white space is one blank by then).
Separators ==
    {"<h1>", "</h1>", "<h2>", "</h2>", "<h3>", "</h3>", "<p>", "</p>",
     "<blockquote>", "</blockquote>", "<ul>", "</ul>", "<li>", "</li>",
     "<br>", "<br/>", "<br />", "<br >"}

\* The separator that starts at position i of s, "" when none does.
SeparatorAt(s, i) ==
    LET gt == Find(s, ">", i)
    IN  IF CharAt(s, i) = "<" /\ gt > 0 /\ SubSeq(s, i, gt) \in Separators
        THEN SubSeq(s, i, gt)
        ELSE ""

RECURSIVE SplitFrom(_, _, _)
\* The chunks of s from position start on, the scan being at position i.
SplitFrom(s, start, i) ==
    IF i > Len(s) THEN <<From(s, start)>>
    ELSE LET sep == SeparatorAt(s, i)
         IN  IF sep = "" THEN SplitFrom(s, start, i + 1)
             ELSE <<SubSeq(s, start, i - 1), sep>>
                     \o SplitFrom(s, i + Len(sep), i + Len(sep))

\* re.split(r'(...)', processed): the texts between separators, and the
\* separators, in turn.
SplitBlocks(s) == SplitFrom(s, 1, 1)

\* re.match(r'<(/?)([a-z0-9]+)\s*/?>', chunk, re.I): a match at the START of
\* chunk; closing is group 1, tag is group 2 in lower case.
TagMatch(chunk) ==
    LET closing  == CharAt(chunk, 2) = "/"
        first    == IF closing THEN 3 ELSE 2
        ends     == {e \in (first - 1)..Len(chunk) :
                        \A k \in first..e : CharAt(chunk, k) \in NameSet}
        last     == CHOOSE e \in ends : \A f \in ends : f <= e
        nexts    == {k \in (last + 1)..(Len(chunk) + 1) : ~IsSpace(CharAt(chunk, k))}
        next     == CHOOSE k \in nexts : \A j \in nexts : k <= j
        gt       == IF CharAt(chunk, next) = "/" THEN next + 1 ELSE next
    IN  IF CharAt(chunk, 1) = "<" /\ last >= first /\ CharAt(chunk, gt) = ">"
        THEN [ok |-> TRUE, closing |-> closing,
              tag |-> Lower(SubSeq(chunk, first, last))]
        ELSE [ok |-> FALSE, closing |-> FALSE, tag |-> ""]

\* The markup of a paragraph the Paragraph class of ReportLab parses.
ReportLabTags ==
    {"b", "strong", "i", "em", "u", "strike", "sup", "sub", "super", "font",
     "a", "link", "span", "br", "img", "nobr", "greek", "seq", "seqreset",
     "seqdefault", "ondraw", "index", "unichar", "para"}

RECURSIVE TagsBalance(_, _)
\* The tags of text are known to ReportLab and close in order; open is the
\* stack of the tags that are open.
TagsBalance(text, open) ==
    LET lt   == Find(text, "<", 1)
        gt   == Find(text, ">", lt + 1)
        m    == TagMatch(SubSeq(text, lt, gt))
        self == CharAt(text, gt - 1) = "/" \/ m.tag \in {"br", "img"}
        rest == From(text, gt + 1)
    IN  IF lt = 0 THEN open = <<>>
        ELSE IF gt = 0 THEN FALSE
        ELSE IF m.ok /\ m.closing
        THEN open # <<>> /\ open[Len(open)] = m.tag
                /\ TagsBalance(rest, SubSeq(open, 1, Len(open) - 1))
        ELSE IF Find(SubSeq(text, lt, gt), " ", 1) = 0 /\ ~m.ok THEN FALSE
        ELSE LET sp   == Find(SubSeq(text, lt, gt), " ", 1)
                 name == IF m.ok THEN m.tag
                         ELSE Lower(SubSeq(text, lt + 1, lt + sp - 2))
             IN  /\ name \in ReportLabTags
                 /\ TagsBalance(rest, IF self THEN open ELSE Append(open, name))

\* Paragraph(text, style) raises: ReportLab's parser rejects the markup.
ParagraphRaises(text) == ~TagsBalance(text, <<>>)

\* story.append(Paragraph(text, style)), and in the except branch
\* story.append(Paragraph(escape(re.sub(r'<[^>]+>', '', text)), style))
Paragraph(text, style) ==
    IF ParagraphRaises(text)
    THEN [style |-> style, text |-> HtmlEscape(ReStripTags(text))]
    ELSE [style |-> style, text |-> text]

\* tag_map: the style of each block tag (the name given to s()).
tag_map ==
    [h1 |-> "h1", h2 |-> "h2", h3 |-> "h3", p |-> "n", blockquote |-> "bq",
     li |-> "n"]

\* cur_tag = None
NoTag == ""

RECURSIVE Walk(_, _, _, _)
\* The loop of _html_to_rl over the chunks, with its cur_tag, buf and story.
Walk(blocks, cur_tag, buf, story) ==
    IF blocks = <<>> THEN story
    ELSE LET chunk == Head(blocks)
             m     == TagMatch(chunk)
             text  == Strip(JoinSpace(buf))
         IN  IF ~m.ok THEN Walk(Tail(blocks), cur_tag, Append(buf, chunk), story)
             ELSE IF m.tag = "ul" THEN Walk(Tail(blocks), cur_tag, buf, story)
             ELSE IF ~m.closing THEN Walk(Tail(blocks), m.tag, <<>>, story)
             ELSE IF text # "" /\ cur_tag \in DOMAIN tag_map
             THEN Walk(Tail(blocks), NoTag, <<>>,
                       Append(story, Paragraph(text, tag_map[cur_tag])))
             ELSE Walk(Tail(blocks), NoTag, <<>>, story)

\* PDFExporter._html_to_rl: the flowables of the document body.
_html_to_rl(raw) ==
    Walk(SplitBlocks(CollapseSpace(ReplaceSpans(raw))), NoTag, <<>>, <<>>)

\* _html_to_rl of every body the editor may hold, computed once.
FlowablesOfBodies ==
    [raw \in EditorValues \cup RenderBodies \cup {_initial_content} |->
        _html_to_rl(raw)]

\* self._html_to_rl(content, normal, h1s, h2s, h3s, bq)
Flowables(content) ==
    IF content \in DOMAIN FlowablesOfBodies THEN FlowablesOfBodies[content]
    ELSE _html_to_rl(content)

\* The story _reportlab builds for the fallback engine.
_reportlab(content, title, author, institution, sid, evts, start, now) ==
    LET stats   == _stats(evts, start, now)
        rows    == AiRows(evts)
        ai_rows == IF rows # <<>> THEN rows
                   ELSE << <<"No AI interactions recorded.">> >>
    IN  [meta     |-> [title |-> title, author |-> author,
                       institution |-> institution, session |-> Slice(sid, 8)],
         body     |-> content,
         stats    |-> stats,
         ai_table |-> ai_rows,
         footer   |-> "ReportLab",
         sections |->
            << Section("meta", MetaFields(title, author, institution, now, sid)),
               Section("legend", LegendItems),
               Section("body", Flowables(content)),
               Section("page_break", <<>>),
               Section("appendix", <<"Appendix A - AI Usage Report">>),
               Section("counters", StatCells(stats)),
               Section("session", <<Slice(sid, 8), start>>),
               Section("ai_table", ai_rows),
               Section("annotation_key", AnnotationKey),
               Section("footer", <<"ReportLab">>) >>]

\* _pdf_export_ok: _weasyprint_ok() or _reportlab_ok()
_pdf_export_ok(weasyprint_ok, reportlab_ok) ==
    IF weasyprint_ok THEN TRUE ELSE reportlab_ok

\* A slip: the fallback engine is tried first.
SelectEngine_fallback_first(weasyprint_ok, reportlab_ok) ==
    IF reportlab_ok THEN "ReportLab"
    ELSE IF weasyprint_ok THEN "WeasyPrint"
    ELSE "none"

\* The if-chain of PDFExporter.export: the engine it calls.
SelectEngine(weasyprint_ok, reportlab_ok) ==
    IF weasyprint_ok THEN "WeasyPrint"
    ELSE IF reportlab_ok THEN "ReportLab"
    ELSE "none"

\* PDFExporter.engine_name
engine_name(weasyprint_ok, reportlab_ok) ==
    IF weasyprint_ok THEN "WeasyPrint"
    ELSE IF reportlab_ok THEN "ReportLab"
    ELSE "none"

\* The message of the error export raises when no engine is found (the
\* arrows of the source text written "<-").
NoEngineMessage ==
    "No PDF engine found.\n  pip install reportlab          <- pure Python, works everywhere\n  python setup_weasyprint.py --setup  <- for full CSS rendering"

\* A slip: the error raised as an ImportError.
NoEngineError_import == [type |-> "ImportError", message |-> NoEngineMessage]

\* raise RuntimeError(...)
NoEngineError == [type |-> "RuntimeError", message |-> NoEngineMessage]

\* What an engine's rendering call (write_pdf, doc.build) may do: return the
\* bytes, or raise an error of its own.
RenderOutcomes == {"ok", "OSError"}

\* The selected engine runs on its document.
RunEngine(engine, doc, render) ==
    IF render = "ok"
    THEN [called |-> TRUE, engines |-> <<engine>>, outcome |-> "bytes",
          error |-> <<>>, doc |-> <<doc>>]
    ELSE [called |-> TRUE, engines |-> <<engine>>, outcome |-> "raised",
          error |-> <<[type |-> render, message |-> "render failed"]>>,
          doc |-> <<>>]

\* PDFExporter.export: the engines it called, and the bytes it returned or
\* the error it raised.
pdf_export(weasyprint_ok, reportlab_ok, content, title, author, institution, sid, evts, start, now, render) ==
    LET engine == SelectEngine(weasyprint_ok, reportlab_ok)
    IN  CASE engine = "WeasyPrint" ->
               RunEngine(engine,
                         _build_html(content, title, author, institution,
                                     "WeasyPrint", sid, evts, start, now),
                         render)
          [] engine = "ReportLab" ->
               RunEngine(engine,
                         _reportlab(content, title, author, institution,
                                    sid, evts, start, now),
                         render)
          [] OTHER ->
               [called |-> TRUE, engines |-> <<>>, outcome |-> "raised",
                error |-> <<NoEngineError>>, doc |-> <<>>]

\* ----------------------------------------------------- Editor helpers ----

\* value or default, for a str.
OrDefault(value, default) == IF value = "" THEN default ELSE value

RECURSIVE Replace(_, _, _)
\* str.replace(old, new) for a one-character old.
Replace(s, old, new) ==
    IF s = "" THEN ""
    ELSE (IF SubSeq(s, 1, 1) = old THEN new ELSE SubSeq(s, 1, 1))
            \o Replace(SubSeq(s, 2, Len(s)), old, new)

RECURSIVE StripTags(_, _)
\* The text of html outside its tags; in_tag says a tag is open.
StripTags(html, in_tag) ==
    IF html = "" THEN ""
    ELSE LET c    == SubSeq(html, 1, 1)
             rest == SubSeq(html, 2, Len(html))
         IN  IF in_tag THEN StripTags(rest, c # ">")
             ELSE IF c = "<" THEN StripTags(rest, TRUE)
             ELSE c \o StripTags(rest, FALSE)

\* bleach.clean(html, tags=[], strip=True), for markup without entities.
_strip_html(html) == StripTags(html, FALSE)

RECURSIVE Words(_, _)
\* len(text.split()); in_word says the previous character was no blank.
Words(text, in_word) ==
    IF text = "" THEN 0
    ELSE LET blank == SubSeq(text, 1, 1) \in {" ", "\n", "\t"}
         IN  (IF ~blank /\ ~in_word THEN 1 ELSE 0)
                + Words(SubSeq(text, 2, Len(text)), ~blank)

\* A slip: the body wrapped as plain text, its markup stripped.
_wrap_xhtml_text(body_html) ==
    "<?xml version=\"1.0\" encoding=\"UTF-8\"?>\n"
       \o "<!DOCTYPE html>\n"
       \o "<html xmlns=\"http://www.w3.org/1999/xhtml\">\n"
       \o "<head><title>Glass Box Document</title></head>\n"
       \o "<body>\n" \o _strip_html(body_html) \o "\n</body>\n"
       \o "</html>"

\* Editor._wrap_xhtml
_wrap_xhtml(body_html) ==
    "<?xml version=\"1.0\" encoding=\"UTF-8\"?>\n"
       \o "<!DOCTYPE html>\n"
       \o "<html xmlns=\"http://www.w3.org/1999/xhtml\">\n"
       \o "<head><title>Glass Box Document</title></head>\n"
       \o "<body>\n" \o body_html \o "\n</body>\n"
       \o "</html>"

\* -------------------------------------------------------------- state ----

VARIABLES
    session_id,      \* ProcessLog.session_id
    user_id,         \* ProcessLog.user_id
    start_time,      \* ProcessLog.start_time
    events,          \* ProcessLog.events
    ret,             \* the last call made on the log: [op, arg, val]
    first_end,       \* history: the end time the first finalization returned
    editor_value,    \* Editor.editor_ref.value
    char_count,      \* Editor.char_count
    word_count,      \* Editor.word_count
    doc_meta,        \* Editor._doc_title, _doc_author, _doc_institution
    has_weasyprint,  \* the host has WeasyPrint and its native libraries
    has_reportlab,   \* the host has ReportLab
    pdf,             \* the last call of PDFExporter.export and its outcome
    ui,              \* what the last Editor handler showed, sent or raised
    step             \* position in the scripted scenario

\* The ProcessLog object and the record of the calls made on it.
logvars == <<session_id, user_id, start_time, events, ret, first_end>>

\* The Editor object and the host it runs on.
edvars ==
    <<editor_value, char_count, word_count, doc_meta, has_weasyprint,
      has_reportlab, pdf, ui>>

vars == <<logvars, edvars, step>>

\* ------------------------------------------------------------ inputs ----

\* uuid.uuid4() values.
SessionIds == {"3f2b8c1e-7a4d-4e9b-9c55-0d6f1a2b3c4d"}

\* "anon-" + sha256(uuid4)[:12]
_generate_ephemeral_id == "anon-9f86d081884c"

\* user_id given to the constructor: None, or a caller's own identifier.
UserIdArgs == {None(""), Some("student-7")}

MetaArgs == {None(<<>>), Some(<<>>), Some(<< <<"role", "user">> >>)}

CheckpointArgs == {[char_count |-> 120, word_count |-> 20, cursor_position |-> 120]}

EditArgs == {[position_start |-> 3, position_end |-> 9, source |-> "human"]}

PasteArgs ==
    {[char_count |-> 42, position_start |-> 10, position_end |-> 52,
      source |-> "external", preview |-> "pasted text"]}

AiInteractionArgs ==
    {[interaction_type |-> "paraphrase", model |-> "demo-model",
      output_length |-> 30, position_start |-> 52, position_end |-> 82,
      output_preview |-> "", acceptance |-> "fully_accepted",
      input_preview |-> ""]}

FocusChangeArgs == {[duration_ms |-> 1500]}

\* end_time given to to_dict: None, or an end time a caller holds.
EndTimeArgs == {None(IsoFormat(0))} \cup {Some(IsoFormat(t)) : t \in Readings}

\* xhtml_content given to export.
XhtmlArgs == {"", "<html><body><p>Hello</p></body></html>"}

\* ----------------------------------------------------------- actions ----

\* ProcessLog.__init__: the clock is read for start_time and again, by
\* log_event, for the session_start event.
NewSession(uid_arg, sid, now1, now2) ==
    /\ session_id = sid
    /\ user_id = (IF uid_arg.given /\ uid_arg.val # "" THEN uid_arg.val
                  ELSE _generate_ephemeral_id)
    /\ start_time = IsoFormat(now1)
    /\ events = log_event(<<>>, now2, "session_start", None(<<>>)).events
    /\ ret = [op |-> "__init__", arg |-> uid_arg, val |-> <<>>]
    /\ first_end = None(IsoFormat(0))

\* Editor.__init__ and create(): the editor shows the initial content; no
\* content change has been handled, no dialog has run.
NewEditor ==
    /\ editor_value = _initial_content
    /\ char_count = 0
    /\ word_count = 0
    /\ doc_meta = [title |-> "Untitled Document", author |-> "",
                   institution |-> ""]
    /\ pdf = [called |-> FALSE, engines |-> <<>>, outcome |-> "none",
              error |-> <<>>, doc |-> <<>>]
    /\ ui = [handler |-> "create", notify |-> <<>>, download |-> <<>>,
             dialog |-> <<>>, unhandled |-> <<>>]

\* A session as the Editor creates it: ProcessLog().
Init ==
    /\ \E sid \in SessionIds, now1, now2 \in Readings :
          NewSession(None(""), sid, now1, now2)
    /\ NewEditor
    /\ has_weasyprint = FALSE
    /\ has_reportlab = FALSE
    /\ step = 0

\* The log holds a session_end event.
Finalized(evts) == \E i \in DOMAIN evts : Get(evts[i], "type") = "session_end"

\* A call that appends through log_event: res is what log_event returned.
Logged(op, arg, res) ==
    /\ events' = res.events
    /\ ret' = [op |-> op, arg |-> arg, val |-> res.ret]
    /\ UNCHANGED <<session_id, user_id, start_time, first_end>>

DoLogEvent(event_type, meta, now) ==
    Logged("log_event", <<event_type, meta>>, log_event(events, now, event_type, meta))

DoLogCheckpoint(a, now) == Logged("log_checkpoint", a, log_checkpoint(events, now, a))

DoLogEdit(a, now) == Logged("log_edit", a, log_edit(events, now, a))

DoLogPaste(a, now) == Logged("log_paste", a, log_paste(events, now, a))

DoLogAiInteraction(a, now) ==
    Logged("log_ai_interaction", a, log_ai_interaction(events, now, a))

DoLogFocusChange(a, now) ==
    Logged("log_focus_change", a, log_focus_change(events, now, a))

\* The history variable keeps the end time of the first finalization.
Finalizing(end_time) ==
    first_end' = IF first_end.given THEN first_end ELSE Some(end_time)

DoEndSession(now1, now2) ==
    LET res == end_session(events, now1, now2)
    IN  /\ events' = res.events
        /\ ret' = [op |-> "end_session", arg |-> <<>>, val |-> res.ret]
        /\ Finalizing(res.ret)
        /\ UNCHANGED <<session_id, user_id, start_time>>

\* A slip: to_dict finalizing the session before it reads, as export does.
DoToDict_ending(end_time, now) ==
    LET res == end_session(events, now, now)
    IN  /\ events' = res.events
        /\ ret' = [op |-> "to_dict", arg |-> end_time,
                   val |-> to_dict(session_id, user_id, start_time, now, end_time)]
        /\ Finalizing(res.ret)
        /\ UNCHANGED <<session_id, user_id, start_time>>

\* ProcessLog.to_dict(end_time)
DoToDict(end_time, now) ==
    /\ ret' = [op |-> "to_dict", arg |-> end_time,
               val |-> to_dict(session_id, user_id, start_time, now, end_time)]
    /\ UNCHANGED <<session_id, user_id, start_time, events, first_end>>

DoExport(xhtml_content, now1, now2) ==
    LET res == export(events, session_id, user_id, start_time,
                      xhtml_content, now1, now2)
    IN  /\ events' = res.events
        /\ ret' = [op |-> "export", arg |-> xhtml_content, val |-> res.ret]
        /\ Finalizing(IsoFormat(now1))
        /\ UNCHANGED <<session_id, user_id, start_time>>

\* The model stops appending to a log that holds MaxEvents events.
Room == Len(events) < MaxEvents

LogEvent ==
    /\ Room
    /\ \E event_type \in CallerEventTypes, meta \in MetaArgs, now \in Readings :
          DoLogEvent(event_type, meta, now)
    /\ UNCHANGED <<edvars, step>>

LogCheckpoint ==
    /\ Room
    /\ \E a \in CheckpointArgs, now \in Readings : DoLogCheckpoint(a, now)
    /\ UNCHANGED <<edvars, step>>

LogEdit ==
    /\ Room
    /\ \E a \in EditArgs, now \in Readings : DoLogEdit(a, now)
    /\ UNCHANGED <<edvars, step>>

LogPaste ==
    /\ Room
    /\ \E a \in PasteArgs, now \in Readings : DoLogPaste(a, now)
    /\ UNCHANGED <<edvars, step>>

LogAiInteraction ==
    /\ Room
    /\ \E a \in AiInteractionArgs, now \in Readings : DoLogAiInteraction(a, now)
    /\ UNCHANGED <<edvars, step>>

LogFocusChange ==
    /\ Room
    /\ \E a \in FocusChangeArgs, now \in Readings : DoLogFocusChange(a, now)
    /\ UNCHANGED <<edvars, step>>

EndSession ==
    /\ Room
    /\ \E now1, now2 \in Readings : DoEndSession(now1, now2)
    /\ UNCHANGED <<edvars, step>>

ToDict ==
    /\ \E end_time \in EndTimeArgs, now \in Readings : DoToDict(end_time, now)
    /\ UNCHANGED <<edvars, step>>

Export ==
    /\ Room
    /\ \E xhtml_content \in XhtmlArgs, now1, now2 \in Readings :
          DoExport(xhtml_content, now1, now2)
    /\ UNCHANGED <<edvars, step>>

Next ==
    \/ LogEvent
    \/ LogCheckpoint
    \/ LogEdit
    \/ LogPaste
    \/ LogAiInteraction
    \/ LogFocusChange
    \/ EndSession
    \/ ToDict
    \/ Export

Spec == Init /\ [][Next]_vars

\* ---------------------------------------------------------- Editor -----

\* Events an editor session may hold before the model stops its handlers.
MaxEditorEvents == 2

\* The data of a gb_paste event of the browser.
PasteData == {[length |-> 11, preview |-> "pasted text"]}

\* What a handler leaves on the page when it shows nothing.
Quiet(handler) ==
    [handler |-> handler, notify |-> <<>>, download |-> <<>>,
     dialog |-> <<>>, unhandled |-> <<>>]

EditorRoom == Len(events) < MaxEditorEvents

\* Editor._on_content_change
OnContentChange ==
    /\ \E value \in EditorValues :
          /\ editor_value' = value
          /\ char_count' = Len(_strip_html(value))
          /\ word_count' = Words(_strip_html(value), FALSE)
    /\ ui' = Quiet("_on_content_change")
    /\ UNCHANGED <<logvars, doc_meta, has_weasyprint, has_reportlab, pdf, step>>

\* Editor._on_checkpoint, run by the 30 s timer.
OnCheckpoint ==
    /\ EditorRoom
    /\ \E now \in Readings :
          DoLogCheckpoint([char_count |-> char_count, word_count |-> word_count,
                           cursor_position |-> char_count], now)
    /\ ui' = Quiet("_on_checkpoint")
    /\ UNCHANGED <<editor_value, char_count, word_count, doc_meta,
                   has_weasyprint, has_reportlab, pdf, step>>

\* Editor._attach_paste_at_cursor._handle_paste
HandlePaste ==
    /\ EditorRoom
    /\ \E data \in PasteData, now \in Readings :
          DoLogPaste([char_count |-> data.length, position_start |-> char_count,
                      position_end |-> char_count + data.length,
                      source |-> "external", preview |-> data.preview], now)
    /\ ui' = [Quiet("_handle_paste") EXCEPT
                 !.notify = <<"positive", "External paste logged">>]
    /\ UNCHANGED <<editor_value, char_count, word_count, doc_meta,
                   has_weasyprint, has_reportlab, pdf, step>>

\* Editor.export_twff, with the dialog _show_export_dialog opens.
ExportTwff ==
    /\ EditorRoom
    /\ \E now1, now2 \in Readings :
          DoExport(_wrap_xhtml(OrDefault(editor_value, "")), now1, now2)
    /\ ui' = [Quiet("export_twff") EXCEPT
                 !.notify = <<"positive", "TWFF exported">>,
                 !.download = <<"document.twff">>,
                 !.dialog = <<Slice(session_id, 8), Len(events')>>]
    /\ UNCHANGED <<editor_value, char_count, word_count, doc_meta,
                   has_weasyprint, has_reportlab, pdf, step>>

\* What _do_export shows for an outcome of PDFExporter.export: the download
\* and a notice for bytes, a notice for a RuntimeError; any other error
\* leaves the handler.
AfterPdfExport(result, title) ==
    IF result.outcome = "bytes"
    THEN [Quiet("_do_export") EXCEPT
             !.notify = <<"positive", "PDF exported">>,
             !.download = <<Slice(Replace(title, " ", "_"), 40) \o ".pdf">>]
    ELSE IF result.error[1].type = "RuntimeError"
    THEN [Quiet("_do_export") EXCEPT
             !.notify = <<"negative", result.error[1].message>>]
    ELSE [Quiet("_do_export") EXCEPT !.unhandled = result.error]

\* Editor._show_pdf_meta_dialog._do_export
DoExportPdf ==
    /\ \E input \in MetaInputs, now \in Readings, render \in RenderOutcomes :
          LET title  == OrDefault(input.title, "Untitled")
              result == pdf_export(has_weasyprint, has_reportlab,
                                   OrDefault(editor_value, ""), title,
                                   OrDefault(input.author, ""),
                                   OrDefault(input.institution, ""),
                                   session_id, events, start_time, now, render)
          IN  /\ doc_meta' = [title |-> title,
                              author |-> OrDefault(input.author, ""),
                              institution |-> OrDefault(input.institution, "")]
              /\ pdf' = result
              /\ ui' = AfterPdfExport(result, title)
    /\ UNCHANGED <<logvars, editor_value, char_count, word_count,
                   has_weasyprint, has_reportlab, step>>

\* An editor on a host with any of the four engine installations.
InitEditor ==
    /\ \E sid \in SessionIds, now1, now2 \in Readings :
          NewSession(None(""), sid, now1, now2)
    /\ NewEditor
    /\ has_weasyprint \in BOOLEAN
    /\ has_reportlab \in BOOLEAN
    /\ step = 0

NextEditor ==
    \/ OnContentChange
    \/ OnCheckpoint
    \/ HandlePaste
    \/ ExportTwff
    \/ DoExportPdf

SpecEditor == InitEditor /\ [][NextEditor]_vars

\* -------------------------------------------------------- scenario ------

\* The calls of the scenario of the specification's section 8.
ScenarioPasteArgs ==
    [char_count |-> 42, position_start |-> 10, position_end |-> 52,
     source |-> "external", preview |-> ""]

ScenarioAiArgs ==
    [interaction_type |-> "paraphrase", model |-> "demo-model",
     output_length |-> 30, position_start |-> 52, position_end |-> 82,
     output_preview |-> "", acceptance |-> "fully_accepted",
     input_preview |-> ""]

InitScenario ==
    /\ \E uid_arg \in UserIdArgs, sid \in SessionIds, now1, now2 \in Readings :
          NewSession(uid_arg, sid, now1, now2)
    /\ NewEditor
    /\ has_weasyprint = FALSE
    /\ has_reportlab = FALSE
    /\ step = 0

ScenarioPaste ==
    /\ step = 0
    /\ \E now \in Readings : DoLogPaste(ScenarioPasteArgs, now)
    /\ step' = 1
    /\ UNCHANGED edvars

ScenarioAiInteraction ==
    /\ step = 1
    /\ \E now \in Readings : DoLogAiInteraction(ScenarioAiArgs, now)
    /\ step' = 2
    /\ UNCHANGED edvars

ScenarioEndSession ==
    /\ step = 2
    /\ \E now1, now2 \in Readings : DoEndSession(now1, now2)
    /\ step' = 3
    /\ UNCHANGED edvars

ScenarioExport ==
    /\ step = 3
    /\ \E xhtml_content \in XhtmlArgs, now1, now2 \in Readings :
          DoExport(xhtml_content, now1, now2)
    /\ step' = 4
    /\ UNCHANGED edvars

NextScenario ==
    \/ ScenarioPaste
    \/ ScenarioAiInteraction
    \/ ScenarioEndSession
    \/ ScenarioExport

SpecScenario == InitScenario /\ [][NextScenario]_vars

\* ---------------------------------------------------------- render ------

\* Events a rendered session may hold before the model stops inserting.
MaxRenderEvents == 3

\* The annotation buttons the model presses.
DemoAnnotations == {"ai_paraphrase", "ai_completion", "external_paste"}

\* fixtures of _demo_insert
DemoFixtures ==
    << <<"ai_paraphrase", "This sentence was rewritten by an AI assistant to improve clarity and flow.">>,
       <<"ai_generated", "This paragraph was drafted entirely by an AI assistant as a demonstration.">>,
       <<"external_paste", "This content was pasted from an external source.">> >>

\* fixtures.get(key, "Sample annotated content.")
DemoText(key) ==
    IF Has(DemoFixtures, key) THEN Get(DemoFixtures, key)
    ELSE "Sample annotated content."

\* An editor whose document holds one of the bodies (_on_content_change has
\* counted its characters and words), on a host with an engine.
InitRender ==
    /\ \E sid \in SessionIds, now \in Readings :
          NewSession(None(""), sid, now, now)
    /\ editor_value \in EditorValues \cup RenderBodies
    /\ char_count = Len(_strip_html(editor_value))
    /\ word_count = Words(_strip_html(editor_value), FALSE)
    /\ doc_meta = [title |-> "Untitled Document", author |-> "",
                   institution |-> ""]
    /\ pdf = [called |-> FALSE, engines |-> <<>>, outcome |-> "none",
              error |-> <<>>, doc |-> <<>>]
    /\ ui = Quiet("_on_content_change")
    /\ has_weasyprint \in BOOLEAN
    /\ has_reportlab \in BOOLEAN
    /\ _pdf_export_ok(has_weasyprint, has_reportlab)
    /\ step = 0

\* Editor._demo_insert of an annotation (Ollama being offline): it logs an
\* ai_interaction when the annotation's log_type says so. The model inserts
\* before it exports.
RenderDemoInsert ==
    /\ Len(events) < MaxRenderEvents
    /\ ~pdf.called
    /\ \E key \in DemoAnnotations, now \in Readings :
          LET ann  == Get(ANNOTATION_TYPES, key)
              text == DemoText(key)
          IN  IF Get(ann, "log_type") = "ai_interaction"
              THEN DoLogAiInteraction(
                      [interaction_type |-> Get(ann, "interaction"),
                       model |-> "demo-glass-box",
                       output_length |-> Len(text),
                       position_start |-> char_count,
                       position_end |-> char_count + Len(text),
                       output_preview |-> Slice(text, 50),
                       acceptance |-> "fully_accepted",
                       input_preview |-> ""], now)
              ELSE UNCHANGED logvars
    /\ ui' = Quiet("_demo_insert")
    /\ UNCHANGED <<editor_value, char_count, word_count, doc_meta,
                   has_weasyprint, has_reportlab, pdf, step>>

\* Editor._show_pdf_meta_dialog._do_export, which the PDF button opens: the
\* button is enabled when _pdf_export_ok().
RenderExportPdf ==
    /\ _pdf_export_ok(has_weasyprint, has_reportlab)
    /\ DoExportPdf

NextRender ==
    \/ RenderDemoInsert
    \/ RenderExportPdf

SpecRender == InitRender /\ [][NextRender]_vars

\* ------------------------------------------------------ usage stats ------

\* The model stops appending to a log that holds MaxStatsEvents events.
MaxStatsEvents == 3

\* Clock readings of a session that lasts two minutes: half a second after
\* the first whole second, and the two-minute mark.
StatsReadings == {1, 2 * SecondsPerMinute * TicksPerSecond}

\* The timestamp texts a log handed to PDFExporter may hold.
StatsStamps == {IsoFormat(t) : t \in StatsReadings} \cup {Unparsable}

\* An event of a log that ProcessLog did not write itself.
ForeignEvent(event_type, ts) ==
    << <<"timestamp", ts>>, <<"type", event_type>>, <<"meta", <<>>>> >>

\* PDFExporter(process_log): a log that starts with its session_start, and
\* may hold one more event.
InitStats ==
    /\ \E sid \in SessionIds, start \in StatsStamps :
          /\ session_id = sid
          /\ user_id = _generate_ephemeral_id
          /\ start_time = start
          /\ \E rest \in {<<>>} \cup { <<ForeignEvent(event_type, ts)>> :
                                         event_type \in {"paste", "session_end"},
                                         ts \in StatsStamps } :
                events = <<ForeignEvent("session_start", start)>> \o rest
          /\ ret = [op |-> "__init__", arg |-> None(""), val |-> <<>>]
          /\ first_end = None(IsoFormat(0))
    /\ NewEditor
    /\ has_weasyprint = FALSE
    /\ has_reportlab = FALSE
    /\ step = 0

StatsRoom == Len(events) < MaxStatsEvents

StatsLogAiInteraction ==
    /\ StatsRoom
    /\ \E a \in AiInteractionArgs, now \in StatsReadings : DoLogAiInteraction(a, now)
    /\ UNCHANGED <<edvars, step>>

StatsLogEdit ==
    /\ StatsRoom
    /\ \E a \in EditArgs, now \in StatsReadings : DoLogEdit(a, now)
    /\ UNCHANGED <<edvars, step>>

StatsLogPaste ==
    /\ StatsRoom
    /\ \E a \in PasteArgs, now \in StatsReadings : DoLogPaste(a, now)
    /\ UNCHANGED <<edvars, step>>

StatsEndSession ==
    /\ StatsRoom
    /\ \E now1, now2 \in StatsReadings : DoEndSession(now1, now2)
    /\ UNCHANGED <<edvars, step>>

\* PDFExporter._stats, called on the log.
StatsRead ==
    /\ \E now \in StatsReadings :
          ret' = [op |-> "_stats", arg |-> now,
                  val |-> _stats(events, start_time, now)]
    /\ UNCHANGED <<session_id, user_id, start_time, events, first_end>>
    /\ UNCHANGED <<edvars, step>>

NextStats ==
    \/ StatsLogAiInteraction
    \/ StatsLogEdit
    \/ StatsLogPaste
    \/ StatsEndSession
    \/ StatsRead

SpecStats == InitStats /\ [][NextStats]_vars

\* ================================================== ProcessLog claims ====

\* The type of the i-th event of a log.
TypeAt(evts, i) == Get(evts[i], "type")

\* The number of events of a type in a log.
CountType(evts, event_type) ==
    Cardinality({i \in DOMAIN evts : TypeAt(evts, i) = event_type})

\* The operations that record an event through log_event.
LogOps ==
    {"log_event", "log_checkpoint", "log_edit", "log_paste",
     "log_ai_interaction", "log_focus_change"}

\* The operations that finalize the session.
FinalizeOps == {"end_session", "export"}

\* The event type a logging call records.
OpEventType(r) ==
    CASE r.op = "log_event"          -> r.arg[1]
      [] r.op = "log_checkpoint"     -> "checkpoint"
      [] r.op = "log_edit"           -> "edit"
      [] r.op = "log_paste"          -> "paste"
      [] r.op = "log_ai_interaction" -> "ai_interaction"
      [] r.op = "log_focus_change"   -> "focus_change"

\* The session document stored in an archive.
ArchivedLog(archive) == JsonLoads(Get(archive, "meta/process-log.json"))

\* The end time a finalizing call carries: the value end_session returned, or
\* the end_time of the session document in the archive export returned.
EndTimeOf(r) ==
    IF r.op = "end_session" THEN r.val
    ELSE Get(ArchivedLog(r.val), "end_time")

\* C1: in every reachable state events[0] is a session_start event, it is the
\* only session_start of the log, and the log holds at most one session_end
\* event (also after end_session twice, export after end_session, export
\* twice).
C1_OneStartOneEnd ==
    /\ TypeAt(events, 1) = "session_start"
    /\ CountType(events, "session_start") = 1
    /\ CountType(events, "session_end") <= 1

\* C2: once the log holds a session_end event, a call of log_event or of a
\* typed log_* operation adds no event to it.
C2_NoEventAfterEnd ==
    [][(Finalized(events) /\ ret'.op \in LogOps) => events' = events]_vars

\* C3: a call of end_session or export on a finalized session leaves the
\* events as they are and carries the end time the first finalization
\* returned.
C3_FinalizeIdempotent ==
    [][(Finalized(events) /\ ret'.op \in FinalizeOps)
          => (events' = events /\ EndTimeOf(ret') = first_end.val)]_vars

\* C4: each event's timestamp is greater than or equal to the timestamp of
\* the event before it, whatever the clock reads.
C4_TimestampsMonotone ==
    \A i \in 1..(Len(events) - 1) :
        TsLeq(Get(events[i], "timestamp"), Get(events[i + 1], "timestamp"))

\* C5: the log is append-only. No step changes, moves or removes an event
\* of the log, and a logging call on an open session appends exactly one
\* event, of the call's type, at the end and returns that event.
C5_AppendOnly ==
    [][/\ Len(events') >= Len(events)
       /\ SubSeq(events', 1, Len(events)) = events
       /\ (ret'.op \in LogOps /\ ~Finalized(events))
             => /\ Len(events') = Len(events) + 1
                /\ events'[Len(events')] = ret'.val
                /\ Get(ret'.val, "type") = OpEventType(ret')]_vars

\* A typed logging call has appended the third event of an open session and
\* returned it.
C5_Witness ==
    /\ ret.op = "log_paste"
    /\ Len(events) = 3
    /\ ~Finalized(events)
    /\ TypeAt(events, 2) = "checkpoint"
    /\ events[3] = ret.val

\* The hash a reader of the archive recomputes: SHA-256 of the canonical
\* (sorted-key) serialization of the events array stored in the session
\* document, concatenated with the session_id stored in it.
RecomputedHash(log) ==
    Sha256(<<JsonDumpsEvents(Get(log, "events"), TRUE), Get(log, "session_id")>>)

BodyOf(xhtml) ==
    LET open  == "<body>\n"
        close == "\n</body>"
        first == CHOOSE i \in 1..Len(xhtml) :
                    /\ OccursAt(xhtml, open, i)
                    /\ \A j \in 1..(i - 1) : ~OccursAt(xhtml, open, j)
        last  == CHOOSE i \in 1..Len(xhtml) :
                    /\ OccursAt(xhtml, close, i)
                    /\ \A j \in (i + 1)..Len(xhtml) : ~OccursAt(xhtml, close, j)
    IN  SubSeq(xhtml, first + Len(open), last - 1)

\* The paths of a TWFF archive.
ArchivePaths ==
    <<"content/document.xhtml", "meta/process-log.json", "meta/manifest.xml">>

\* C7: every archive export returns holds exactly three entries, at the
\* three fixed paths; the content entry is the document handed to export,
\* which for export_twff wraps the editor's body unchanged; the manifest has
\* exactly two items, which reference the other two entries.
C7_ArchiveLayout ==
    ret.op = "export"
       => /\ KeysOf(ret.val) = ArchivePaths
          /\ Get(ret.val, "content/document.xhtml") = ret.arg
          /\ (ui.handler = "export_twff"
                => BodyOf(Get(ret.val, "content/document.xhtml")) = editor_value)
          /\ LET manifest == Get(ret.val, "meta/manifest.xml")
             IN  [i \in DOMAIN manifest |-> manifest[i].href]
                    = <<ArchivePaths[1], ArchivePaths[2]>>

\* export_twff has returned the archive of an editor that holds markup.
C7_Witness ==
    /\ ui.handler = "export_twff"
    /\ ret.op = "export"
    /\ editor_value = "<p>Hello world</p>"
    /\ Len(ret.val) = 3
    /\ Contains(Get(ret.val, "content/document.xhtml"), "<p>Hello world</p>")

\* C8: after the scenario (a paste, an ai_interaction, end_session, export)
\* the exported events are session_start, paste, ai_interaction,
\* session_end, the usage stats are ai = 1, paste = 1, edits = 0, and the
\* archive holds the three fixed paths.
C8_Scenario ==
    step = 4
       => /\ LET exported == Get(ArchivedLog(ret.val), "events")
             IN  [i \in DOMAIN exported |-> TypeAt(exported, i)]
                    = <<"session_start", "paste", "ai_interaction", "session_end">>
          /\ \A now \in Readings :
                LET stats == _stats(events, start_time, now)
                IN  stats.ai = 1 /\ stats.paste = 1 /\ stats.edits = 0
          /\ KeysOf(ret.val) = ArchivePaths

\* C9: PDFExporter.export calls the primary engine whenever the primary
\* probe is true, the fallback engine when only the fallback probe is true,
\* and no engine when both are false; a successful export has called exactly
\* one engine, the one engine_name names.
C9_EngineSelection ==
    pdf.called
       => /\ has_weasyprint => pdf.engines = <<"WeasyPrint">>
          /\ (~has_weasyprint /\ has_reportlab) => pdf.engines = <<"ReportLab">>
          /\ (~has_weasyprint /\ ~has_reportlab) => pdf.engines = <<>>
          /\ pdf.outcome = "bytes"
                => /\ Len(pdf.engines) = 1
                   /\ pdf.engines[1] = engine_name(has_weasyprint, has_reportlab)
                   /\ pdf.doc[1].footer = pdf.engines[1]

\* With the fallback engine alone on the host, an export has returned the
\* fallback engine's document.
C9_Witness ==
    /\ pdf.called
    /\ ~has_weasyprint
    /\ has_reportlab
    /\ pdf.outcome = "bytes"
    /\ pdf.engines = <<"ReportLab">>

WellFormed(evts, start) ==
    /\ Parses(start)
    /\ \A i \in DOMAIN evts : Parses(Get(evts[i], "timestamp"))

\* The instant a session ends: the timestamp of its session_end (the last
\* one), or the reading now while the session is open.
EndInstant(evts, now) ==
    IF Finalized(evts)
    THEN TsTicks(Get(evts[CHOOSE i \in DOMAIN evts :
                             /\ TypeAt(evts, i) = "session_end"
                             /\ \A j \in DOMAIN evts :
                                   TypeAt(evts, j) = "session_end" => j <= i],
                     "timestamp"))
    ELSE now

\* The whole minutes in a span of ticks.
WholeMinutes(ticks) == ticks \div (SecondsPerMinute * TicksPerSecond)

\* C11: _stats returns ai, paste and edits equal to the number of events of
\* type ai_interaction, paste and edit, and mins equal to the whole minutes
\* elapsed between start_time and the session_end timestamp (or now, while
\* the session is open), raised to 1 when that is below 1.
C11_StatsValues ==
    (ret.op = "_stats" /\ WellFormed(events, start_time))
       => /\ ret.val.ai = CountType(events, "ai_interaction")
          /\ ret.val.paste = CountType(events, "paste")
          /\ ret.val.edits = CountType(events, "edit")
          /\ ret.val.mins
                = Max(1, WholeMinutes(EndInstant(events, ret.arg)
                                         - TsTicks(start_time)))

\* The counts _stats returned are the counts of the log.
CountsOf(stats, evts) ==
    /\ stats.ai = CountType(evts, "ai_interaction")
    /\ stats.paste = CountType(evts, "paste")
    /\ stats.edits = CountType(evts, "edit")

\* C12 as stated: if start_time or the timestamp of any event cannot be
\* parsed, _stats returns mins = 0 with the counts of the log.
C12_AnyMalformedGivesZero ==
    (ret.op = "_stats" /\ ~WellFormed(events, start_time))
       => /\ ret.val.mins = 0
          /\ CountsOf(ret.val, events)

\* The timestamp of the last session_end of the log cannot be parsed.
LastEndMalformed(evts) ==
    \E i \in DOMAIN evts :
       /\ TypeAt(evts, i) = "session_end"
       /\ \A j \in DOMAIN evts : TypeAt(evts, j) = "session_end" => j <= i
       /\ ~Parses(Get(evts[i], "timestamp"))

\* C12, amended: _stats always returns the counts of the log; it returns
\* mins = 0 exactly when start_time, or the timestamp of the last
\* session_end, cannot be parsed; a malformed timestamp of any other event
\* is not read, and mins is then at least 1.
C12_ParsedMalformedGivesZero ==
    ret.op = "_stats"
       => /\ CountsOf(ret.val, events)
          /\ (~Parses(start_time) \/ LastEndMalformed(events))
                => ret.val.mins = 0
          /\ ~(~Parses(start_time) \/ LastEndMalformed(events))
                => ret.val.mins >= 1

\* _stats has run on a log with a paste whose start_time cannot be parsed.
C12_Witness ==
    /\ ret.op = "_stats"
    /\ ~Parses(start_time)
    /\ CountType(events, "paste") = 1
    /\ ret.val.mins = 0
    /\ ret.val.paste = 1

\* The calls of the stats specification that append an event.
AppendOps == {"log_ai_interaction", "log_edit", "log_paste", "end_session"}

\* C13: appending an ai_interaction event never lowers the ai count, and
\* appending any event (a session_end included) never lowers mins below the
\* value _stats returned just before the append, whenever _stats is read
\* again (at a clock reading not earlier than that of the first read).
C13_StatsMonotone ==
    [][(/\ ret'.op \in AppendOps
        /\ Len(events') = Len(events) + 1
        /\ WellFormed(events', start_time))
          => \A now \in StatsReadings :
                /\ ret'.op = "log_ai_interaction"
                      => _stats(events', start_time, now).ai
                            >= _stats(events, start_time, now).ai
                /\ (ret.op = "_stats" /\ now >= ret.arg)
                      => _stats(events', start_time, now).mins >= ret.val.mins]_vars

\* ==================================================== render claims ====

\* The kinds of the sections of a document, in order.
SectionKinds(doc) == [i \in DOMAIN doc.sections |-> doc.sections[i].kind]

\* What the section of the given kind shows.
ItemsOf(doc, kind) ==
    doc.sections[CHOOSE i \in DOMAIN doc.sections : doc.sections[i].kind = kind].items

\* The first entries of the items.
Firsts(items) == [i \in DOMAIN items |-> items[i][1]]

\* The sections of the academic template, in order.
SectionOrder ==
    <<"meta", "legend", "body", "page_break", "appendix", "counters",
      "session", "ai_table", "annotation_key", "footer">>

\* _do_export has run and PDFExporter.export returned bytes: the editor,
\* the dialog fields and the log are the inputs of that export.
Exported == ui.handler = "_do_export" /\ pdf.outcome = "bytes"

\* The document of the primary engine for the inputs of the last export.
HtmlDoc(now) ==
    _build_html(editor_value, doc_meta.title, doc_meta.author,
                doc_meta.institution, "WeasyPrint", session_id, events,
                start_time, now)

\* The document of the fallback engine for the inputs of the last export.
RlDoc(now) ==
    _reportlab(editor_value, doc_meta.title, doc_meta.author,
               doc_meta.institution, session_id, events, start_time, now)

\* C14: for the same inputs both engines emit the same sequence of
\* sections: metadata block (title, optional author, optional institution,
\* date, session id cut to 8 characters), inline legend, body, page break,
\* appendix (the four counters in the order AI interactions, external
\* pastes, human edits, minutes; session line; AI table; annotation key
\* with descriptions), and a footer that names the engine.
C14_SameSections ==
    Exported
       => /\ \E now \in Readings :
                pdf.doc[1] = IF pdf.engines[1] = "WeasyPrint" THEN HtmlDoc(now)
                             ELSE RlDoc(now)
          /\ \A now \in Readings :
                LET html  == HtmlDoc(now)
                    rl    == RlDoc(now)
                    stats == _stats(events, start_time, now)
                IN  /\ SectionKinds(html) = SectionOrder
                    /\ SectionKinds(rl) = SectionOrder
                    /\ ItemsOf(html, "meta") = ItemsOf(rl, "meta")
                    /\ Firsts(ItemsOf(rl, "meta"))
                          = <<"Title">>
                               \o (IF doc_meta.author # "" THEN <<"Author">> ELSE <<>>)
                               \o (IF doc_meta.institution # "" THEN <<"Institution">>
                                   ELSE <<>>)
                               \o <<"Date", "Session">>
                    /\ ItemsOf(rl, "meta")[Len(ItemsOf(rl, "meta"))][2]
                          = Slice(session_id, 8)
                    /\ ItemsOf(html, "legend") = ItemsOf(rl, "legend")
                    /\ Firsts(ItemsOf(html, "counters"))
                          = <<stats.ai, stats.paste, stats.edits, stats.mins>>
                    /\ Firsts(ItemsOf(rl, "counters"))
                          = <<stats.ai, stats.paste, stats.edits, stats.mins>>
                    /\ \A i \in 1..4 :
                          Upper(ItemsOf(html, "counters")[i][2])
                             = Upper(ItemsOf(rl, "counters")[i][2])
                    /\ ItemsOf(html, "session") = ItemsOf(rl, "session")
                    /\ ItemsOf(html, "annotation_key") = ItemsOf(rl, "annotation_key")
                    /\ \A i \in DOMAIN ItemsOf(rl, "annotation_key") :
                          Len(ItemsOf(rl, "annotation_key")[i]) = 3
                    /\ ItemsOf(html, "footer") = <<"WeasyPrint">>
                    /\ ItemsOf(rl, "footer") = <<"ReportLab">>

\* The fallback engine has rendered a document with an author, of a log
\* that holds two ai_interaction events.
C14_Witness ==
    /\ Exported
    /\ pdf.engines = <<"ReportLab">>
    /\ doc_meta.author = "A. Writer"
    /\ CountType(events, "ai_interaction") = 2
    /\ SectionKinds(pdf.doc[1]) = SectionOrder

\* The position in the log of the k-th event of the given type.
NthOfType(evts, event_type, k) ==
    CHOOSE i \in DOMAIN evts :
       /\ TypeAt(evts, i) = event_type
       /\ CountType(SubSeq(evts, 1, i), event_type) = k

\* What the row of an ai_interaction event shows: its time, interaction
\* type, model, output length and acceptance.
RowOf(e) ==
    LET meta == Get(e, "meta")
    IN  <<Get(e, "timestamp").sec, Get(meta, "interaction_type"),
          Get(meta, "model"), Get(meta, "output_length"), Get(meta, "acceptance")>>

\* The table has one row for each ai_interaction event of the log, in log
\* order, and a single placeholder when the log has none.
TableOfLog(table, evts) ==
    IF CountType(evts, "ai_interaction") = 0
    THEN Len(table) = 1 /\ Len(table[1]) = 1
    ELSE /\ Len(table) = CountType(evts, "ai_interaction")
         /\ \A k \in DOMAIN table :
               table[k] = RowOf(evts[NthOfType(evts, "ai_interaction", k)])

\* C15: in both engines the AI interaction table has exactly one row for
\* each ai_interaction event of the log and none for any other event, in
\* log order, each row showing the event's time, interaction type, model,
\* output length and acceptance; with no ai_interaction event both engines
\* show a single placeholder.
C15_AiTable ==
    Exported
       => /\ TableOfLog(ItemsOf(pdf.doc[1], "ai_table"), events)
          /\ \A now \in Readings :
                /\ TableOfLog(ItemsOf(HtmlDoc(now), "ai_table"), events)
                /\ TableOfLog(ItemsOf(RlDoc(now), "ai_table"), events)

\* A document has been rendered of a log with a completion logged before a
\* paraphrase: two rows, after the session_start that has none.
C15_Witness ==
    /\ Exported
    /\ Len(events) = 3
    /\ Get(Get(events[2], "meta"), "interaction_type") = "completion"
    /\ Get(Get(events[3], "meta"), "interaction_type") = "paraphrase"
    /\ Len(ItemsOf(pdf.doc[1], "ai_table")) = 2
    /\ ItemsOf(pdf.doc[1], "ai_table")[1][2] = "completion"

\* A document has been rendered of a log without ai_interaction events: the
\* table is the placeholder.
C15_WitnessPlaceholder ==
    /\ Exported
    /\ CountType(events, "ai_interaction") = 0
    /\ Len(ItemsOf(pdf.doc[1], "ai_table")) = 1

\* The registry entry of an annotation kind, and the palette entry the
\* renderers use for a css class.
KindEntry(i) == ANNOTATION_TYPES[i][2]
PaletteHas(css) == \E j \in DOMAIN ANN_COLOURS : ANN_COLOURS[j][1] = css

\* The palette has, for every registry kind, the registry's label and
\* description under the kind's css class, and no other class.
PaletteIsRegistry ==
    /\ \A i \in DOMAIN ANNOTATION_TYPES :
          /\ PaletteHas(Get(KindEntry(i), "css_class"))
          /\ Get(Get(ANN_COLOURS, Get(KindEntry(i), "css_class")), "label")
                = Get(KindEntry(i), "label")
          /\ Get(Get(ANN_COLOURS, Get(KindEntry(i), "css_class")), "desc")
                = Get(KindEntry(i), "description")
    /\ \A j \in DOMAIN ANN_COLOURS :
          \E i \in DOMAIN ANNOTATION_TYPES :
             Get(KindEntry(i), "css_class") = ANN_COLOURS[j][1]

\* The labels of the registry kinds, in registry order.
RegistryLabels == [i \in DOMAIN ANNOTATION_TYPES |-> Get(KindEntry(i), "label")]

\* The second column of a list of items.
Seconds(items) == [i \in DOMAIN items |-> items[i][2]]

\* The inline legend and the appendix key of a document list one entry for
\* each registry kind, in registry order.
LegendsInRegistryOrder(doc) ==
    /\ Seconds(ItemsOf(doc, "legend")) = RegistryLabels
    /\ Seconds(ItemsOf(doc, "annotation_key")) = RegistryLabels

\* C16: the annotation data the renderers use is the registry's: same label
\* and same description for every kind's css class, no class the registry
\* lacks, and both legends of both engines list one entry per registry kind
\* in registry order.
C16_PaletteIsRegistry ==
    Exported
       => /\ PaletteIsRegistry
          /\ LegendsInRegistryOrder(pdf.doc[1])
          /\ \A now \in Readings :
                LegendsInRegistryOrder(HtmlDoc(now)) /\ LegendsInRegistryOrder(RlDoc(now))

\* The part of C16 the code keeps: the classes, the labels and the order of
\* the legends are the registry's (the descriptions are not).
C16_LabelsAndOrder ==
    Exported
       => /\ \A i \in DOMAIN ANNOTATION_TYPES :
                /\ ANN_COLOURS[i][1] = Get(KindEntry(i), "css_class")
                /\ Get(ANN_COLOURS[i][2], "label") = Get(KindEntry(i), "label")
          /\ Len(ANN_COLOURS) = Len(ANNOTATION_TYPES)
          /\ LegendsInRegistryOrder(pdf.doc[1])

\* ------------------------------------------------------------------
\* fallback engine claims
\* ------------------------------------------------------------------

RECURSIVE Squeeze(_)
\* s without its blanks.
Squeeze(s) ==
    IF s = "" THEN ""
    ELSE IF CharAt(s, 1) = " " THEN Squeeze(From(s, 2))
    ELSE CharAt(s, 1) \o Squeeze(From(s, 2))

RECURSIVE TextOf(_)
\* The text of a story: the text of its flowables, one after the other,
\* without markup.
TextOf(story) ==
    IF story = <<>> THEN ""
    ELSE ReStripTags(story[1].text) \o TextOf(Tail(story))

\* The text inside the block quote of a body, "" when it has none.
QuotedText(body) ==
    LET open  == Find(body, "<blockquote>", 1)
        close == Find(body, "</blockquote>", 1)
    IN  IF open = 0 \/ close = 0 THEN ""
        ELSE _strip_html(SubSeq(body, open + Len("<blockquote>"), close - 1))

\* The story has every text run of the body once and in document order, the
\* block-quoted text in the quote style.
FaithfulStory(story, body) ==
    /\ Squeeze(TextOf(story)) = Squeeze(_strip_html(body))
    /\ QuotedText(body) # ""
          => \E i \in DOMAIN story :
                /\ story[i].style = tag_map["blockquote"]
                /\ ReStripTags(story[i].text) = QuotedText(body)

\* The fallback engine has rendered the document.
FallbackRendered == Exported /\ pdf.engines[Len(pdf.engines)] = "ReportLab"

\* C17: for every body made of the supported markup, the structural walk of
\* the fallback engine emits every non-empty text run of the body exactly
\* once and in document order, block-quoted text in the quote style; this
\* includes text before a line break, paragraphs that begin with an inline
\* emphasis tag, and paragraphs nested in a block quote.
C17_WalkKeepsText ==
    (FallbackRendered /\ editor_value \in SupportedBodies)
       => FaithfulStory(ItemsOf(pdf.doc[1], "body"), editor_value)

\* The supported bodies the walk renders in full: those without a line
\* break, without a paragraph that begins with an inline tag and without a
\* paragraph nested in a block quote.
WalkedInFull ==
    {"<blockquote>Quoted</blockquote>",
     "<p>x <i>it</i> y</p>",
     "<p>An <span class=\"ann-paraphrase\">AI <b>text</b></span> here</p>",
     "<ul><li>a</li><li>b</li></ul>"}

\* The part of C17 the code keeps.
C17_PlainBlocksKeepText ==
    (FallbackRendered /\ editor_value \in WalkedInFull)
       => FaithfulStory(ItemsOf(pdf.doc[1], "body"), editor_value)

\* The three cases C17 names, as the code renders them: the text before
\* and after the line break is lost, the paragraph that begins with an
\* emphasis tag is lost, the nested quote is in the normal style.
C17_Losses ==
    /\ _html_to_rl("<h1>Title</h1><p>One<br>Two</p>")
          = <<[style |-> "h1", text |-> "Title"]>>
    /\ _html_to_rl("<p><b>Bold</b> start</p>") = <<>>
    /\ _html_to_rl("<blockquote><p>Quoted</p></blockquote>")
          = <<[style |-> "n", text |-> "Quoted"]>>

\* The story shows the text of the body as escaped plain text: all of it,
\* and no markup.
EscapedPlainText(story, body) ==
    /\ story # <<>>
    /\ \A i \in DOMAIN story : ~Contains(story[i].text, "<")
    /\ Squeeze(TextOf(story)) = Squeeze(HtmlEscape(_strip_html(body)))

\* C18: when the fallback engine meets markup it does not support inside a
\* block (an unknown tag, or a fragment the paragraph builder rejects), the
\* render completes and the block's text appears as escaped plain text; the
\* text of the block does not disappear.
C18_UnsupportedDegrades ==
    (FallbackRendered /\ editor_value \in UnsupportedBodies)
       => EscapedPlainText(ItemsOf(pdf.doc[1], "body"), editor_value)

\* The unsupported bodies whose block begins with plain text.
RejectedInside == {"<p>Say <mark>hi</mark> now</p>", "<p>a <b>bold</p>"}

\* The part of C18 the code keeps: a fragment the paragraph builder rejects
\* after the first character of its block is shown as escaped plain text.
C18_RejectedInsideDegrades ==
    (FallbackRendered /\ editor_value \in RejectedInside)
       => EscapedPlainText(ItemsOf(pdf.doc[1], "body"), editor_value)

\* ------------------------------------------------------------------
\* ordering and frame claims
\* ------------------------------------------------------------------

\* The session is finalized: the log ends with session_end.
EndsWithSessionEnd(evts) == evts # <<>> /\ TypeAt(evts, Len(evts)) = "session_end"

\* The log a render has read was finalized. PDFExporter.export leaves the
\* log as it read it.
C19_RenderReadsFinalized == Exported => EndsWithSessionEnd(events)

\* The log ProcessLog.export has read was finalized once.
C19_ArchiveFinalizesOnce ==
    ret.op = "export"
       => EndsWithSessionEnd(events) /\ CountType(events, "session_end") = 1

\* C19: whenever PDFExporter.export or ProcessLog.export reads the event
\* log, the session is already finalized or the operation finalizes it
\* itself exactly once before reading; a render never reads a log that is
\* still open.
C19_FinalizeThenRead == C19_RenderReadsFinalized /\ C19_ArchiveFinalizesOnce

\* The part of C19 the code keeps: ProcessLog.export finalizes before it
\* reads, so that the log it has read ends with session_end.
C19_ArchiveReadsFinalized == ret.op = "export" => EndsWithSessionEnd(events)

\* ------------------------------------------------------------ reads ----

\* An editor session on a host with a PDF engine, the document being the
\* welcome text or what the user typed.
InitReads ==
    /\ InitRender
    /\ editor_value \in EditorValues

\* ProcessLog.to_dict(end_time), with and without the override.
ReadToDict ==
    /\ \E end_time \in EndTimeArgs, now \in Readings : DoToDict(end_time, now)
    /\ UNCHANGED <<edvars, step>>

\* PDFExporter._stats()
ReadStats ==
    /\ \E now \in Readings :
          ret' = [op |-> "_stats", arg |-> <<>>,
                  val |-> _stats(events, start_time, now)]
    /\ UNCHANGED <<session_id, user_id, start_time, events, first_end>>
    /\ UNCHANGED <<edvars, step>>

\* PDFExporter.engine_name()
ReadEngineName ==
    /\ ret' = [op |-> "engine_name", arg |-> <<>>,
               val |-> engine_name(has_weasyprint, has_reportlab)]
    /\ UNCHANGED <<session_id, user_id, start_time, events, first_end>>
    /\ UNCHANGED <<edvars, step>>

NextReads ==
    \/ RenderDemoInsert
    \/ ReadToDict
    \/ ReadStats
    \/ ReadEngineName
    \/ RenderExportPdf

SpecReads == InitReads /\ [][NextReads]_vars

\* ------------------------------------------------------------------
\* frame claims
\* ------------------------------------------------------------------

\* The operations that only read the session.
ReadOps == {"to_dict", "_stats", "engine_name"}

\* C20: the read operations leave the session unchanged: a step that
\* returns from to_dict (with or without an end-time override), from _stats
\* or from engine_name, or that ends PDFExporter.export, does not change
\* session_id, user_id, start_time, or the length or content of events.
C20_ReadsLeaveSession ==
    [][(ret'.op \in ReadOps \/ ui'.handler = "_do_export")
          => UNCHANGED <<session_id, user_id, start_time, events>>]_vars

\* Every read has returned on a session whose log holds more than its
\* session_start: to_dict with an override, and a PDF export after it.
C20_Witness ==
    /\ Len(events) > 1
    /\ ret.op = "to_dict"
    /\ ret.arg # None(IsoFormat(0))
    /\ Exported

\* _stats has returned on a session whose log holds more than its
\* session_start.
C20_WitnessStats == Len(events) > 1 /\ ret.op = "_stats"

\* ------------------------------------------------------------------
\* session document claims
\* ------------------------------------------------------------------

\* C21: end_time is unset until finalization: the session document to_dict
\* has returned for a session on which end_session has not run carries no
\* end_time value, and the one it has returned for a finalized session
\* carries the end time that end_session returned.
C21_EndTimeUnsetUntilFinalized ==
    (ret.op = "to_dict" /\ ~ret.arg.given)
       => IF Finalized(events)
          THEN Get(ret.val, "end_time") = first_end.val
          ELSE ~Has(ret.val, "end_time")

\* What the code does instead: a document made without an override always
\* carries an end_time, the reading of the clock at the call.
C21_EndTimeIsClockReading ==
    (ret.op = "to_dict" /\ ~ret.arg.given)
       => /\ Has(ret.val, "end_time")
          /\ \E now \in Readings : Get(ret.val, "end_time") = IsoFormat(now)

\* The part of C21 the code keeps: the document in an archive of the first
\* finalization carries the end time that finalization took.
C21_ArchiveCarriesEndTime ==
    (ret.op = "export" /\ CountType(events, "session_end") = 1)
       => Get(ArchivedLog(ret.val), "end_time") = first_end.val

\* ---------------------------------------------------- serialization ----

\* The longest log of the serialization model.
MaxSerialEvents == 3

\* meta given to log_event: None, a dict of JSON values, and dicts holding a
\* value json.dumps has no encoding for. Such an entry is written with the
\* name of the value's Python type after its key and its repr.
SerialMetaArgs ==
    {None(<<>>),
     Some(<< <<"role", "user">> >>),
     Some(<< <<"selection", "{1, 2}", "set">> >>),
     Some(<< <<"role", "user">>, <<"saved_at", "datetime.datetime(2026, 1, 1, 0, 0)", "datetime">> >>)}

\* json.dumps has an encoding for every value of the metas of the log.
JsonSerializable(evts) ==
    \A i \in DOMAIN evts :
       \A j \in DOMAIN Get(evts[i], "meta") : Len(Get(evts[i], "meta")[j]) = 2

\* A slip: the failure caught inside export, the archive returned as far as
\* it was written.
export_partial(evts, sid, uid, start, xhtml_content, now1, now2) ==
    LET ended == end_session(evts, now1, now2)
    IN  IF JsonSerializable(ended.events)
        THEN [events |-> ended.events, raised |-> "",
              ret |-> export(evts, sid, uid, start, xhtml_content, now1, now2).ret]
        ELSE [events |-> ended.events, raised |-> "",
              ret |-> WriteStr(<<>>, "content/document.xhtml", xhtml_content)]

\* ProcessLog.export as a call that returns or raises: json.dumps of the
\* events raises TypeError before the archive is opened, and nothing in
\* export catches it.
export_call(evts, sid, uid, start, xhtml_content, now1, now2) ==
    LET ended == end_session(evts, now1, now2)
    IN  IF JsonSerializable(ended.events)
        THEN [events |-> ended.events, raised |-> "",
              ret |-> export(evts, sid, uid, start, xhtml_content, now1, now2).ret]
        ELSE [events |-> ended.events, raised |-> "TypeError", ret |-> <<>>]

SerialRoom == Len(events) < MaxSerialEvents

\* log_event(event_type, meta) with a meta of the caller's.
SerialLogEvent ==
    /\ SerialRoom
    /\ \E event_type \in CallerEventTypes, meta \in SerialMetaArgs, now \in Readings :
          DoLogEvent(event_type, meta, now)
    /\ UNCHANGED <<edvars, step>>

\* export(xhtml_content): bytes, or the exception that leaves it.
SerialExport ==
    /\ SerialRoom
    /\ \E xhtml_content \in XhtmlArgs, now1, now2 \in Readings :
          LET res == export_call(events, session_id, user_id, start_time,
                                 xhtml_content, now1, now2)
          IN  /\ events' = res.events
              /\ ret' = [op |-> "export", arg |-> xhtml_content,
                         val |-> res.ret, raised |-> res.raised]
              /\ Finalizing(IsoFormat(now1))
              /\ UNCHANGED <<session_id, user_id, start_time>>
    /\ UNCHANGED <<edvars, step>>

NextSerial ==
    \/ SerialLogEvent
    \/ SerialExport

SpecSerial == Init /\ [][NextSerial]_vars

\* C22: if serializing the events or the session document fails during
\* export, the failure is raised to the caller of export and no archive
\* bytes, complete or partial, are returned; when nothing fails the archive
\* is returned whole.
C22_SerializationFailureSurfaces ==
    ret.op = "export"
       => IF JsonSerializable(events)
          THEN ret.raised = "" /\ Len(ret.val) = 3
          ELSE ret.raised = "TypeError" /\ ret.val = <<>>

\* export has raised on a log that holds a meta value without a JSON
\* encoding next to events that have one.
C22_Witness ==
    /\ ret.op = "export"
    /\ ret.raised = "TypeError"
    /\ Len(events) = 3
    /\ Get(events[2], "meta") = << <<"selection", "{1, 2}", "set">> >>

\* --------------------------------------------------------- previews ----

\* The longest log of the preview model.
MaxPreviewEvents == 2

RECURSIVE Repeat(_, _)
\* s * n
Repeat(s, n) == IF n <= 0 THEN "" ELSE s \o Repeat(s, n - 1)

\* A text longer than every preview limit.
PreviewFixture == Repeat("0123456789", 11)

\* The lengths of the strings given as previews: empty, and one less than,
\* equal to and one more than each limit.
PreviewLengths == {0, 49, 50, 51, 99, 100, 101}

\* preview, output_preview and input_preview given by a caller.
PreviewStrings == {SubSeq(PreviewFixture, 1, n) : n \in PreviewLengths}

PreviewPasteArgs ==
    {[char_count |-> Len(p), position_start |-> 10, position_end |-> 10 + Len(p),
      source |-> "external", preview |-> p] : p \in PreviewStrings}

PreviewAiArgs ==
    {[interaction_type |-> "paraphrase", model |-> "demo-model",
      output_length |-> Len(o), position_start |-> 52,
      position_end |-> 52 + Len(o), output_preview |-> o,
      acceptance |-> "fully_accepted", input_preview |-> i] :
        o \in PreviewStrings, i \in PreviewStrings}

PreviewRoom == Len(events) < MaxPreviewEvents

\* log_paste(..., preview=p)
PreviewLogPaste ==
    /\ PreviewRoom
    /\ \E a \in PreviewPasteArgs, now \in Readings : DoLogPaste(a, now)
    /\ UNCHANGED <<edvars, step>>

\* log_ai_interaction(..., output_preview=o, input_preview=i)
PreviewLogAiInteraction ==
    /\ PreviewRoom
    /\ \E a \in PreviewAiArgs, now \in Readings : DoLogAiInteraction(a, now)
    /\ UNCHANGED <<edvars, step>>

NextPreview ==
    \/ PreviewLogPaste
    \/ PreviewLogAiInteraction

SpecPreview == Init /\ [][NextPreview]_vars

\* stored is the first limit characters of given, and given itself when it
\* is no longer than limit.
FirstChars(stored, given, limit) ==
    /\ Len(stored) = (IF Len(given) <= limit THEN Len(given) ELSE limit)
    /\ \A k \in 1..Len(stored) : CharAt(stored, k) = CharAt(given, k)
    /\ Len(given) <= limit => stored = given

\* C23: the preview stored by log_paste is the first 100 characters of the
\* given preview, and the output_preview and input_preview stored by
\* log_ai_interaction are the first 50 and the first 100 characters of the
\* given strings; a string no longer than its limit is stored unchanged.
C23_PreviewsTruncated ==
    /\ ret.op = "log_paste"
          => FirstChars(Get(Get(ret.val, "meta"), "output_preview"),
                        ret.arg.preview, 100)
    /\ ret.op = "log_ai_interaction"
          => /\ FirstChars(Get(Get(ret.val, "meta"), "output_preview"),
                           ret.arg.output_preview, 50)
             /\ FirstChars(Get(Get(ret.val, "meta"), "input_preview"),
                           ret.arg.input_preview, 100)

\* log_ai_interaction has stored an output_preview cut at 50 characters and
\* an input_preview cut at 100, of strings one character longer.
C23_Witness ==
    /\ ret.op = "log_ai_interaction"
    /\ Len(ret.arg.output_preview) = 51
    /\ Len(ret.arg.input_preview) = 101
    /\ Len(Get(Get(events[Len(events)], "meta"), "output_preview")) = 50
    /\ Len(Get(Get(events[Len(events)], "meta"), "input_preview")) = 100

\* log_paste has stored a preview cut at 100 characters.
C23_WitnessPaste ==
    /\ ret.op = "log_paste"
    /\ Len(ret.arg.preview) = 101
    /\ Len(Get(Get(events[Len(events)], "meta"), "output_preview")) = 100

\* ------------------------------------------------------------------
\* meta schema claims
\* ------------------------------------------------------------------

\* The typed operations.
TypedOps ==
    {"log_checkpoint", "log_edit", "log_paste", "log_ai_interaction",
     "log_focus_change"}

\* The schema of the meta of each typed operation: each field with the
\* argument it holds and, for a preview, the length it is cut to (0: none).
MetaSchema(op) ==
    CASE op = "log_checkpoint" ->
            {<<"char_count_total", "char_count", 0>>,
             <<"word_count_total", "word_count", 0>>,
             <<"position", "cursor_position", 0>>}
      [] op = "log_edit" ->
            {<<"position_start", "position_start", 0>>,
             <<"position_end", "position_end", 0>>,
             <<"source", "source", 0>>}
      [] op = "log_paste" ->
            {<<"char_count", "char_count", 0>>,
             <<"source", "source", 0>>,
             <<"position_start", "position_start", 0>>,
             <<"position_end", "position_end", 0>>,
             <<"output_preview", "preview", 100>>}
      [] op = "log_ai_interaction" ->
            {<<"interaction_type", "interaction_type", 0>>,
             <<"model", "model", 0>>,
             <<"input_preview", "input_preview", 100>>,
             <<"output_preview", "output_preview", 50>>,
             <<"output_length", "output_length", 0>>,
             <<"position_start", "position_start", 0>>,
             <<"position_end", "position_end", 0>>,
             <<"acceptance", "acceptance", 0>>}
      [] op = "log_focus_change" ->
            {<<"duration_ms", "duration_ms", 0>>}

\* meta has exactly the fields of the schema of op, each holding its
\* argument of the call.
MetaOfSchema(meta, op, arg) ==
    /\ {meta[i][1] : i \in DOMAIN meta} = {f[1] : f \in MetaSchema(op)}
    /\ Len(meta) = Cardinality(MetaSchema(op))
    /\ \A f \in MetaSchema(op) :
          IF f[3] = 0 THEN Get(meta, f[1]) = arg[f[2]]
          ELSE FirstChars(Get(meta, f[1]), arg[f[2]], f[3])

\* C24: each typed operation appends exactly one event of its own type
\* whose meta has exactly the field set of the schema of that type, each
\* field holding the argument given for it.
C24_TypedMetaSchema ==
    [][ret'.op \in TypedOps
          => /\ Len(events') = Len(events) + 1
             /\ SubSeq(events', 1, Len(events)) = events
             /\ TypeAt(events', Len(events')) = OpEventType(ret')
             /\ MetaOfSchema(Get(events'[Len(events')], "meta"), ret'.op,
                             ret'.arg)]_vars

\* log_checkpoint has appended its event after the event of another typed
\* operation.
C24_Witness ==
    /\ Len(events) = 3
    /\ ret.op = "log_checkpoint"
    /\ TypeAt(events, 2) = "ai_interaction"
    /\ TypeAt(events, 3) = "checkpoint"
    /\ Get(Get(events[3], "meta"), "char_count_total") = 120

\* -------------------------------------------------------- assistant ----

RECURSIVE LStripChars(_, _)
\* s.lstrip(chars): the leading characters that are in chars removed.
LStripChars(s, chars) ==
    IF s # "" /\ CharAt(s, 1) \in chars THEN LStripChars(From(s, 2), chars)
    ELSE s

RECURSIVE RStripChars(_, _)
\* s.rstrip(chars)
RStripChars(s, chars) ==
    IF s # "" /\ CharAt(s, Len(s)) \in chars
    THEN RStripChars(SubSeq(s, 1, Len(s) - 1), chars)
    ELSE s

\* The backquote of a markdown fence, written as a caret.
Fence == "^"

\* raw.strip().lstrip(FFFjson).lstrip(FFF).rstrip(FFF).strip(), F being the
\* backquote: lstrip and rstrip take their argument as a set of characters.
StripFences(raw) ==
    Strip(RStripChars(LStripChars(LStripChars(Strip(raw),
                                              {Fence, "j", "s", "o", "n"}),
                                  {Fence}),
                      {Fence}))

\* The advice a model gives as asked.
AdviceJson ==
    "{\"quoted\": \"q\", \"needs_citation\": false, \"suggestion\": \"Cite the source.\"}"

\* What OllamaClient.generate returns to quote_and_cite: the advice, the
\* advice in a markdown fence, prose, JSON that is no object (an array, a
\* string, null), and an object without the fields.
CitationReplies ==
    {AdviceJson,
     Fence \o Fence \o Fence \o "json\n" \o AdviceJson \o "\n" \o Fence \o Fence \o Fence,
     "Sure, here is my advice.",
     "[1, 2]",
     "\"Add a citation.\"",
     "null",
     "{}"}

\* json.loads on the texts quote_and_cite gives it: the Python value of
\* each text that is valid JSON (its type, and its items when a dict).
JsonValues ==
    << <<AdviceJson,
         [type |-> "dict",
          items |-> << <<"quoted", "q">>, <<"needs_citation", FALSE>>,
                       <<"suggestion", "Cite the source.">> >>]>>,
       <<"[1, 2]", [type |-> "list", items |-> <<>>]>>,
       <<"\"Add a citation.\"", [type |-> "str", items |-> <<>>]>>,
       <<"null", [type |-> "NoneType", items |-> <<>>]>>,
       <<"{}", [type |-> "dict", items |-> <<>>]>> >>

\* json.loads(raw) raises json.JSONDecodeError
JsonDecodeFails(text) == ~Has(JsonValues, text)

\* OllamaClient.quote_and_cite, from the reply of the model on: the parsed
\* reply, whatever its type, or the generic advice when it does not parse.
quote_and_cite(selected_text, reply) ==
    LET raw == StripFences(reply)
    IN  IF JsonDecodeFails(raw)
        THEN [type |-> "dict",
              items |-> << <<"quoted", "\"" \o selected_text \o "\"">>,
                           <<"needs_citation", TRUE>>,
                           <<"suggestion", "Consider adding a citation for this passage.">> >>]
        ELSE Get(JsonValues, raw)

\* res.get(key, default)
DictGet(res, key, default) ==
    IF Has(res.items, key) THEN Get(res.items, key) ELSE default

\* The labels of the Quote & Cite dialog.
Labels(selection, result, cite) ==
    [selected |-> Slice(selection, 80), selection |-> selection,
     result |-> result, cite |-> cite]

\* Editor.cmd_quote_and_cite._analyse: the labels it leaves in the dialog
\* (the warning sign, the check mark and the dash written in ASCII).
\* res.get on a result that is no dict raises AttributeError, which the
\* except branch shows in result_label (its quotation marks left out);
\* cite_label keeps its text.
_analyse(selection, available, call) ==
    IF ~available
    THEN Labels(selection, "\"" \o selection \o "\"",
                "Ollama offline - install for AI citation suggestions.")
    ELSE IF call.raised # ""
    THEN Labels(selection, "Error: " \o call.raised, "")
    ELSE LET res == quote_and_cite(selection, call.text)
         IN  IF res.type # "dict"
             THEN Labels(selection,
                         "Error: " \o res.type \o " object has no attribute get",
                         "")
             ELSE Labels(selection,
                         "Quoted: " \o DictGet(res, "quoted", selection),
                         (IF DictGet(res, "needs_citation", TRUE)
                          THEN "(!) Likely needs citation. "
                          ELSE "(ok) Looks original. ")
                            \o DictGet(res, "suggestion", ""))

\* self._selected_text when a command runs.
Selections == {"", "To be, or not to be"}

\* What a call of the model comes to: a reply, or an exception of the HTTP
\* client.
CitationCalls ==
    {[raised |-> "", text |-> r] : r \in CitationReplies}
       \cup {[raised |-> "ConnectError", text |-> ""]}

\* What a handler of the assistant leaves on the page: as Quiet, with what
\* its JavaScript did in the browser and what its calls of the model came
\* to.
Ran(handler, js, calls) ==
    [handler |-> handler, notify |-> <<>>, download |-> <<>>,
     dialog |-> <<>>, unhandled |-> <<>>, js |-> js, calls |-> calls]

\* Editor.cmd_quote_and_cite: a warning without a selection, else the
\* dialog, in which the timer runs _analyse once.
cmd_quote_and_cite(selection, available, call) ==
    IF selection = ""
    THEN [Ran("cmd_quote_and_cite", <<>>, <<>>) EXCEPT
             !.notify = <<"warning", "Select some text first">>]
    ELSE [Ran("cmd_quote_and_cite", <<>>,
              IF available THEN <<call>> ELSE <<>>) EXCEPT
             !.dialog = <<_analyse(selection, available, call)>>]

\* What cmd_quote_and_cite leaves on the page, for every selection, state
\* of the model server and reply.
QuotePages ==
    {cmd_quote_and_cite(selection, available, call) :
        selection \in Selections, available \in BOOLEAN,
        call \in CitationCalls}

\* The command 'Quote & cite selection'.
CmdQuoteAndCite ==
    /\ \E page \in QuotePages : ui' = page
    /\ UNCHANGED <<logvars, editor_value, char_count, word_count, doc_meta,
                   has_weasyprint, has_reportlab, pdf, step>>

\* str.endswith
EndsWith(s, suffix) ==
    Len(s) >= Len(suffix) /\ From(s, Len(s) - Len(suffix) + 1) = suffix

\* _CONTINUATIONS of fallback_completion
Continuations ==
    <<"furthermore, ", "in addition, ", "however, ", "this suggests that ",
      "as a result, ", "consequently, ">>

\* OllamaClient.fallback_completion
fallback_completion(context) ==
    LET tail == Strip(Lower(context))
    IN  IF EndsWith(tail, ",") THEN " which"
        ELSE IF EndsWith(tail, "the") THEN " following"
        ELSE Continuations[(Words(context, FALSE) % Len(Continuations)) + 1]

\* s.split(sep)[0]
BeforeFirst(s, sep) ==
    IF Find(s, sep, 1) = 0 THEN s ELSE SubSeq(s, 1, Find(s, sep, 1) - 1)

\* s.rsplit(" ", 1)[0]
BeforeLastBlank(s) ==
    LET blanks == {i \in 1..Len(s) : CharAt(s, i) = " "}
    IN  IF blanks = {} THEN s
        ELSE SubSeq(s, 1, (CHOOSE i \in blanks : \A j \in blanks : j <= i) - 1)

\* OllamaClient.ghost_completion, from the reply of the model on.
ghost_completion(reply) ==
    LET result == Strip(BeforeFirst(BeforeFirst(reply, "."), "\n"))
    IN  IF Len(result) > 60 THEN BeforeLastBlank(Slice(result, 60))
        ELSE result

\* e.args["context"] of a gb_ghost_request event: ed.innerText
GhostContexts ==
    {"", "Too short", "The quick brown fox jumps", "We now consider the",
     "In this paper, "}

\* What a call of the model for a completion comes to.
GhostCalls ==
    {[raised |-> "", text |-> "over the lazy dog. And then"],
     [raised |-> "", text |-> ""],
     [raised |-> "", text |-> "and so on and so forth until the very end of the longest sentence"],
     [raised |-> "ConnectError", text |-> ""],
     [raised |-> "TimeoutException", text |-> ""],
     [raised |-> "KeyError", text |-> ""]}

\* A slip: the handler without its try, the exception leaving it.
_handle_ghost_request_raising(ghost_enabled, context, available, call) ==
    IF ~ghost_enabled \/ Len(Strip(context)) < 10
    THEN Ran("_handle_ghost_request", <<>>, <<>>)
    ELSE IF available /\ call.raised # ""
    THEN [Ran("_handle_ghost_request", <<>>, <<call>>) EXCEPT
             !.unhandled = <<[type |-> call.raised, message |-> ""]>>]
    ELSE LET suggestion == IF available THEN ghost_completion(call.text)
                           ELSE fallback_completion(context)
         IN  Ran("_handle_ghost_request",
                 IF suggestion # ""
                 THEN <<[op |-> "_gbInsertGhost", text |-> suggestion]>>
                 ELSE <<>>,
                 IF available THEN <<call>> ELSE <<>>)

\* Editor._attach_ghost_keyhandler._handle_ghost_request: what it leaves on
\* the page. An exception of the model call is caught and passed over.
_handle_ghost_request(ghost_enabled, context, available, call) ==
    IF ~ghost_enabled \/ Len(Strip(context)) < 10
    THEN Ran("_handle_ghost_request", <<>>, <<>>)
    ELSE IF available /\ call.raised # ""
    THEN Ran("_handle_ghost_request", <<>>, <<call>>)
    ELSE LET suggestion == IF available THEN ghost_completion(call.text)
                           ELSE fallback_completion(context)
         IN  Ran("_handle_ghost_request",
                 IF suggestion # ""
                 THEN <<[op |-> "_gbInsertGhost", text |-> suggestion]>>
                 ELSE <<>>,
                 IF available THEN <<call>> ELSE <<>>)

\* What _handle_ghost_request leaves on the page, for every request.
GhostPages ==
    {_handle_ghost_request(ghost_enabled, context, available, call) :
        ghost_enabled \in BOOLEAN, context \in GhostContexts,
        available \in BOOLEAN, call \in GhostCalls}

\* The handler of gb_ghost_request.
HandleGhostRequest ==
    /\ \E page \in GhostPages : ui' = page
    /\ UNCHANGED <<logvars, editor_value, char_count, word_count, doc_meta,
                   has_weasyprint, has_reportlab, pdf, step>>

\* The longest log of the assistant model.
MaxAssistEvents == 2

AssistRoom == Len(events) < MaxAssistEvents

\* Editor._insert_annotated_at_cursor: the span its script puts in the
\* document, a line feed of the text written as a blank.
InsertSpan(text, ann, tooltip) ==
    [op |-> "insert_span", css |-> Get(ann, "css_class"),
     text |-> Replace(text, "\n", " "), tooltip |-> tooltip]

\* The annotation buttons of the toolbar.
ToolbarAnnotations == <<"ai_paraphrase", "ai_generated", "external_paste">>

\* self.ollama.status.active_model
ActiveModels == {"", "qwen2.5:0.5b"}

\* What a call of the model for a paraphrase or a draft comes to.
InsertCalls ==
    {[raised |-> "", text |-> "A clearer\nsentence."],
     [raised |-> "ConnectError", text |-> ""]}

\* model = self.ollama.status.active_model or "rule-based"
ModelName(active_model) == OrDefault(active_model, "rule-based")

\* The arguments of log_ai_interaction for an inserted text.
InsertLogArgs(interaction, model, text) ==
    [interaction_type |-> interaction, model |-> model,
     output_length |-> Len(text), position_start |-> char_count,
     position_end |-> char_count + Len(text),
     output_preview |-> Slice(text, 50), acceptance |-> "fully_accepted",
     input_preview |-> ""]

\* Editor._ai_insert: the result of the model inserted and logged, or the
\* error of the call shown.
AiInsert(ann, active_model, call, now) ==
    IF call.raised # ""
    THEN /\ ui' = [Ran("_ai_insert", <<>>, <<call>>) EXCEPT
                      !.notify = <<"negative", "AI error: " \o call.raised>>]
         /\ UNCHANGED logvars
    ELSE /\ ui' = [Ran("_ai_insert",
                       <<InsertSpan(call.text, ann,
                                    <<Get(ann, "label"), ModelName(active_model),
                                      Get(events[Len(events)], "timestamp").sec
                                         \div SecondsPerDay>>)>>,
                       <<call>>) EXCEPT
                      !.notify = <<"positive", Get(ann, "label") \o " complete">>]
         /\ DoLogAiInteraction(
               InsertLogArgs(Get(ann, "interaction"), ModelName(active_model),
                             call.text), now)

\* Editor._demo_insert: the fixture of the kind inserted, and logged when
\* the kind's log_type is ai_interaction.
DemoInsert(key, notify, now) ==
    LET ann  == Get(ANNOTATION_TYPES, key)
        text == DemoText(key)
    IN  /\ ui' = [Ran("_demo_insert",
                      <<InsertSpan(text, ann, <<Get(ann, "label"), "demo">>)>>,
                      <<>>) EXCEPT !.notify = notify]
        /\ IF Get(ann, "log_type") = "ai_interaction"
           THEN DoLogAiInteraction(
                   InsertLogArgs(Get(ann, "interaction"), "demo-glass-box", text),
                   now)
           ELSE UNCHANGED logvars

\* Editor._run_annotation_ai, the handler of the annotation buttons.
RunAnnotationAi ==
    /\ AssistRoom
    /\ \E i \in DOMAIN ToolbarAnnotations, available \in BOOLEAN, active_model \in ActiveModels, call \in InsertCalls, now \in Readings :
          LET key == ToolbarAnnotations[i]
              ann == Get(ANNOTATION_TYPES, key)
          IN  IF Get(ann, "log_type") = "ai_interaction"
              THEN IF available THEN AiInsert(ann, active_model, call, now)
                   ELSE DemoInsert(key,
                                   <<"warning", "Ollama offline - inserted demo text. Install from ollama.com for real AI.">>,
                                   now)
              ELSE DemoInsert(key, <<>>, now)
    /\ UNCHANGED <<editor_value, char_count, word_count, doc_meta,
                   has_weasyprint, has_reportlab, pdf, step>>

\* A paste in the editor: the paste listener of the page wraps the text in
\* an ann-external span and emits gb_paste, and _handle_paste logs it.
AssistPaste ==
    /\ AssistRoom
    /\ \E data \in PasteData, now \in Readings :
          /\ DoLogPaste([char_count |-> data.length, position_start |-> char_count,
                         position_end |-> char_count + data.length,
                         source |-> "external", preview |-> data.preview], now)
          /\ ui' = [Ran("_handle_paste",
                        <<[op |-> "insert_span", css |-> "ann-external",
                           text |-> data.preview,
                           tooltip |-> <<"Pasted from external source">>]>>,
                        <<>>) EXCEPT
                       !.notify = <<"positive", "External paste logged">>]
    /\ UNCHANGED <<editor_value, char_count, word_count, doc_meta,
                   has_weasyprint, has_reportlab, pdf, step>>

\* The button 'Insert quoted' of the Quote & Cite dialog: the selection in
\* quotation marks inserted as an external source, and the dialog closed.
InsertQuoted ==
    /\ ui.handler = "cmd_quote_and_cite"
    /\ ui.dialog # <<>>
    /\ ui' = Ran("insert_quoted",
                 <<InsertSpan("\"" \o ui.dialog[1].selection \o "\"",
                              Get(ANNOTATION_TYPES, "external_paste"),
                              <<"Quoted passage">>)>>,
                 <<>>)
    /\ UNCHANGED <<logvars, editor_value, char_count, word_count, doc_meta,
                   has_weasyprint, has_reportlab, pdf, step>>

NextAssist ==
    \/ CmdQuoteAndCite
    \/ InsertQuoted
    \/ HandleGhostRequest
    \/ RunAnnotationAi
    \/ AssistPaste

SpecAssist == Init /\ [][NextAssist]_vars

\* ------------------------------------------------------------------
\* assistant claims
\* ------------------------------------------------------------------

\* The Quote & Cite dialog is open on the reply of the model.
AnalysedReply ==
    /\ ui.handler = "cmd_quote_and_cite"
    /\ ui.dialog # <<>>
    /\ ui.calls # <<>>
    /\ ui.calls[1].raised = ""

\* The reply is structured citation advice: JSON, an object, with the
\* three fields.
UsableAdvice(reply) ==
    LET raw == StripFences(reply)
    IN  /\ Has(JsonValues, raw)
        /\ Get(JsonValues, raw).type = "dict"
        /\ \A f \in {"quoted", "needs_citation", "suggestion"} :
              Has(Get(JsonValues, raw).items, f)

\* The dialog shows the fixed generic suggestion and no error.
ShowsGenericSuggestion(labels) ==
    /\ Contains(labels.cite, "Consider adding a citation for this passage.")
    /\ ~Contains(labels.result, "Error")

\* C25: whenever the reply of the model to a quote-and-cite request is not
\* usable as structured citation advice (not valid JSON, or valid JSON that
\* is not an object with the expected fields), the dialog shows the fixed
\* generic suggestion to consider adding a citation, and no error.
C25_UnusableReplyGetsGeneric ==
    (AnalysedReply /\ ~UsableAdvice(ui.calls[1].text))
       => ShowsGenericSuggestion(ui.dialog[1])

\* The part of C25 the code keeps: a reply that is not valid JSON gets the
\* generic suggestion.
C25_InvalidJsonGetsGeneric ==
    (AnalysedReply /\ JsonDecodeFails(StripFences(ui.calls[1].text)))
       => ShowsGenericSuggestion(ui.dialog[1])

\* C26: a ghost-completion request that fails (model call error, timeout or
\* any other exception) is swallowed by the request handler: no exception
\* leaves the handler, no ghost suggestion is inserted, and no event is
\* appended to the process log.
C26_GhostFailureSwallowed ==
    [][(/\ ui'.handler = "_handle_ghost_request"
        /\ ui'.calls # <<>>
        /\ ui'.calls[1].raised # "")
          => /\ ui'.unhandled = <<>>
             /\ ui'.js = <<>>
             /\ ui'.notify = <<>>
             /\ events' = events]_vars

\* A ghost request has timed out on a session that holds the event of an
\* insert.
C26_Witness ==
    /\ ui.handler = "_handle_ghost_request"
    /\ ui.calls # <<>>
    /\ ui.calls[1].raised = "TimeoutException"
    /\ Len(events) = 2

\* The spans the last handler has inserted.
InsertedSpans(page) ==
    IF page.handler \in {"_ai_insert", "_demo_insert", "_handle_paste", "insert_quoted"}
    THEN page.js
    ELSE <<>>

\* The annotation kind of a css class.
KindOfClass(css) ==
    ANNOTATION_TYPES[CHOOSE i \in DOMAIN ANNOTATION_TYPES :
                        Get(KindEntry(i), "css_class") = css][2]

\* The event is the one the registry asks for a span of the kind: of the
\* kind's log_type and, for an AI kind, of its interaction sub-type.
EventOfKind(e, kind) ==
    /\ Get(e, "type") = Get(kind, "log_type")
    /\ Get(kind, "log_type") = "ai_interaction"
          => Get(Get(e, "meta"), "interaction_type") = Get(kind, "interaction")

\* C30: whenever the editor inserts an annotation span of some kind (real
\* AI insert, demo insert from the toolbar, intercepted paste, or 'Insert
\* quoted' of the quote dialog), exactly one event of that kind's log_type
\* is appended to the process log: a paste event for an ann-external span,
\* an ai_interaction event of the kind's interaction sub-type for an AI
\* span.
C30_InsertedSpanIsLogged ==
    [][InsertedSpans(ui') # <<>>
          => /\ Len(events') = Len(events) + 1
             /\ SubSeq(events', 1, Len(events)) = events
             /\ EventOfKind(events'[Len(events')],
                            KindOfClass(InsertedSpans(ui')[1].css))]_vars

\* The part of C30 the code keeps: the spans of the AI kinds, and the span
\* of an intercepted paste.
C30_AiSpansAndPastesLogged ==
    [][(/\ InsertedSpans(ui') # <<>>
        /\ ui'.handler \in {"_ai_insert", "_handle_paste"}
              \/ InsertedSpans(ui')[1].css # "ann-external")
          => /\ Len(events') = Len(events) + 1
             /\ SubSeq(events', 1, Len(events)) = events
             /\ EventOfKind(events'[Len(events')],
                            KindOfClass(InsertedSpans(ui')[1].css))]_vars

\* ------------------------------------- export in the executor thread ----

\* _do_export hands PDFExporter.export to run_in_executor (editor.py:652):
\* the thread reads the list of the live log while the handlers of the
\* event loop go on appending to it. step is the thread's position: 0 when
\* no export is in flight, 1 when stats = self._stats() has run and the
\* list ai_events has not been built yet.

\* The document of an engine whose counters show the stats the thread read
\* first, the rest built of the list as the thread reads it afterwards.
WithStats(engine, doc, stats) ==
    [doc EXCEPT !.stats = stats,
                !.sections[6] =
                   Section("counters",
                           IF engine = "WeasyPrint" THEN StatCards(stats)
                           ELSE StatCells(stats))]

\* _do_export up to its await, and the thread up to stats = self._stats()
\* of the selected engine.
ThreadStatsRead ==
    /\ step = 0
    /\ _pdf_export_ok(has_weasyprint, has_reportlab)
    /\ \E input \in MetaInputs, now \in Readings :
          /\ doc_meta' = [title |-> OrDefault(input.title, "Untitled"),
                          author |-> OrDefault(input.author, ""),
                          institution |-> OrDefault(input.institution, "")]
          /\ pdf' = [called |-> TRUE,
                     engines |-> <<SelectEngine(has_weasyprint, has_reportlab)>>,
                     outcome |-> "running", error |-> <<>>, doc |-> <<>>,
                     stats |-> _stats(events, start_time, now),
                     now |-> now]
    /\ ui' = Quiet("_do_export")
    /\ step' = 1
    /\ UNCHANGED <<logvars, editor_value, char_count, word_count,
                   has_weasyprint, has_reportlab>>

\* The thread from ai_events = [e for e in self.process_log.events ...] to
\* the bytes, and _do_export after its await.
ThreadRowsRead ==
    /\ step = 1
    /\ \E render \in RenderOutcomes :
          LET engine == pdf.engines[1]
              doc    == IF engine = "WeasyPrint"
                        THEN _build_html(OrDefault(editor_value, ""),
                                         doc_meta.title, doc_meta.author,
                                         doc_meta.institution, "WeasyPrint",
                                         session_id, events, start_time, pdf.now)
                        ELSE _reportlab(OrDefault(editor_value, ""),
                                        doc_meta.title, doc_meta.author,
                                        doc_meta.institution, session_id,
                                        events, start_time, pdf.now)
              result == RunEngine(engine, WithStats(engine, doc, pdf.stats),
                                  render)
          IN  /\ pdf' = result
              /\ ui' = AfterPdfExport(result, doc_meta.title)
    /\ step' = 0
    /\ UNCHANGED <<logvars, editor_value, char_count, word_count, doc_meta,
                   has_weasyprint, has_reportlab>>

\* The handlers of the event loop run before, during and after an export.
NextThreads ==
    \/ ThreadStatsRead
    \/ ThreadRowsRead
    \/ RunAnnotationAi
    \/ AssistPaste

SpecThreads == InitRender /\ [][NextThreads]_vars

\* The 'AI Interactions' counter of a document, and the rows of its AI
\* table, the placeholder being no row of an interaction.
AiCounter(doc) == ItemsOf(doc, "counters")[1][1]
AiTableRows(doc) ==
    LET table == ItemsOf(doc, "ai_table")
    IN  IF Len(table[1]) = 1 THEN 0 ELSE Len(table)

\* C27: the 'AI Interactions' counter of a PDF equals the number of rows of
\* the AI table of the same PDF, also when a log call runs on the event
\* loop while the export runs in the executor thread.
C27_CounterEqualsRows ==
    Exported => AiCounter(pdf.doc[1]) = AiTableRows(pdf.doc[1])

\* The rows are the ai_interaction events of the list at the end of the
\* export, and the counter is never more than the rows: the list only
\* grows between the two reads.
C27_RowsOfLaterRead ==
    Exported
       => /\ AiTableRows(pdf.doc[1]) = CountType(events, "ai_interaction")
          /\ AiCounter(pdf.doc[1]) <= AiTableRows(pdf.doc[1])

\* ------------------------------------------------ archive and log ------

\* The events array of the session document in an archive.
ArchivedEvents(archive) == Get(ArchivedLog(archive), "events")

\* The archive holds the log as it was when export was called, in log
\* order, and one more event, a session_end.
HoldsLogThenEnd(arch, evts) ==
    /\ Len(arch) = Len(evts) + 1
    /\ SubSeq(arch, 1, Len(evts)) = JsonEventsTree(evts, FALSE)
    /\ TypeAt(arch, Len(arch)) = "session_end"

\* No event of the array follows a session_end.
NothingFollowsEnd(arch) ==
    \A i \in 1..(Len(arch) - 1) : TypeAt(arch, i) # "session_end"

\* C28: the events array of every archive export returns contains every
\* event that was in the log when export was called, in log order, and
\* ends with a session_end event; no event recorded before the export is
\* missing and nothing follows session_end in it.
C28_ArchiveIsLogThenEnd ==
    [][ret'.op = "export"
          => /\ HoldsLogThenEnd(ArchivedEvents(ret'.val), events)
             /\ NothingFollowsEnd(ArchivedEvents(ret'.val))]_vars

\* The part of C28 that holds of every export: the archive is the log of
\* the call followed by the session_end of this export.
C28_ArchiveHoldsLog ==
    [][ret'.op = "export"
          => HoldsLogThenEnd(ArchivedEvents(ret'.val), events)]_vars

\* On a session that no call has finalized before, nothing follows the
\* session_end of the archive.
C28_OpenSessionArchive ==
    [][(ret'.op = "export" /\ ~Finalized(events))
          => NothingFollowsEnd(ArchivedEvents(ret'.val))]_vars

\* ------------------------------------------- the document and the log ----

\* The events a session document shows while the log holds evts: the
\* entry of the document is the list of the log itself (process_log.py:149),
\* and log_event appends to that list in place (process_log.py:89).
DocEvents(doc, evts) ==
    IF Get(doc, "events") = EventsRef THEN evts ELSE Get(doc, "events")

\* C29: a session document returned by to_dict is a snapshot: its events
\* stay equal to the events of the log at the moment of the call, so an
\* event that a later log_event, log_* or end_session call records does
\* not appear in the document produced earlier.
C29_DocumentIsSnapshot ==
    [][(ret.op = "to_dict" /\ ret'.op \in LogOps \cup {"end_session"})
          => DocEvents(ret.val, events') = DocEvents(ret.val, events)]_vars

====
